---- MODULE Spec2Model ----
(***************************************************************************)
(* A model of the analysis core of the code quality analyzer:              *)
(*   src/src/metrics.py             CodeMetrics                            *)
(*   src/src/duplicate_detector.py  DuplicateCodeDetector                  *)
(*   src/src/coverage_analyzer.py   CoverageAnalyzer                       *)
(*   src/src/report_generator.py    ReportGenerator (recommendations)      *)
(*                                                                         *)
(* Representation.                                                         *)
(*  - A character is a one-character string, a line is a sequence of       *)
(*    characters, and a source text is the sequence of its top-level       *)
(*    items (function definitions, classes, imports, plain statements,     *)
(*    comments, blank lines, and a malformed line).  Lines(code) is the    *)
(*    text split at newlines, as code.split('\n') gives it; ast.parse is   *)
(*    the inverse of that rendering and fails with SyntaxError on a        *)
(*    malformed item.                                                      *)
(*  - Python floats that the code rounds to one decimal are integers in    *)
(*    tenths (650 is 65.0); round() is round-half-to-even on the exact     *)
(*    quotient.  A similarity ratio is the exact fraction <<2*M, T>>.      *)
(*  - A function body may hold nested functions and a class may hold      *)
(*    methods; NodesOfKind lists nodes in the breadth-first order of       *)
(*    ast.walk, top-level definitions before the ones inside them.         *)
(***************************************************************************)
EXTENDS Integers, Sequences, FiniteSets, TLC

VARIABLES
    code,               \* the source text handed to the constructors
    filename,           \* CodeMetrics.filename / CoverageAnalyzer.filepath
    min_function_lines, \* DuplicateCodeDetector.min_function_lines
    files,              \* paths that exist on disk (os.path.exists)
    cmPc,               \* CodeMetrics: "new", "ready", "raised", "done"
    cmRuns,             \* calls of CodeMetrics.analyze() made on this text
    tree,               \* CodeMetrics.tree: None or the parsed tree
    metrics,            \* the report CodeMetrics.analyze() returned
    ddPc,               \* DuplicateCodeDetector: "new", "ready", "raised", "done"
    ddTree,             \* DuplicateCodeDetector.tree
    ddResult,           \* what DuplicateCodeDetector.analyze()/detect() returned
    caPc,               \* CoverageAnalyzer: "new", "ready", "raised", "done"
    caFunctions,        \* CoverageAnalyzer.functions
    caClasses,          \* CoverageAnalyzer.classes
    caResult,           \* what CoverageAnalyzer.analyze() returned
    sevPairs,           \* _calculate_severity: its argument duplicate_pairs
    sevPercent,         \* _calculate_severity: its argument duplication_percent
    sevResult,          \* what _calculate_severity returned
    scMetrics,          \* _calculate_score: its argument metrics
    scResult,           \* what _calculate_score returned
    sumFunctions,       \* detect(): its list functions, the loops done
    sumDuplicates,      \* detect(): its list duplicates, the loops done
    sumResult,          \* what detect() returns for these two lists
    rgMetrics,          \* _generate_recommendations: its argument metrics
    recommendations     \* None, or [returned |-> the list
                        \* _generate_recommendations returned]

vars == <<code, filename, min_function_lines, files, cmPc, tree, metrics,
          ddPc, ddTree, ddResult, caPc, caFunctions, caClasses, caResult,
          sevPairs, sevPercent, sevResult, cmRuns, scMetrics, scResult,
          rgMetrics, recommendations, sumFunctions, sumDuplicates,
          sumResult>>

\* sevResult before _calculate_severity has been called
NotCalled == "not called"

\* the variables of a direct call of _calculate_severity
sevVars == <<sevPairs, sevPercent, sevResult>>

\* the variables of a direct call of _calculate_score
scVars == <<scMetrics, scResult>>

\* the variables of the summary that ends detect()
sumVars == <<sumFunctions, sumDuplicates, sumResult>>

\* the variables of a direct call of _generate_recommendations
rgVars == <<rgMetrics, recommendations>>

\* Python's None, as a value comparable with trees and reports
None == [none |-> TRUE]

-----------------------------------------------------------------------------
(* Strings *)

Whitespace == {" ", "\t"}

RECURSIVE LStrip(_)
LStrip(s) ==
    IF s # <<>> /\ Head(s) \in Whitespace THEN LStrip(Tail(s)) ELSE s

RECURSIVE RStrip(_)
RStrip(s) ==
    IF s # <<>> /\ s[Len(s)] \in Whitespace
    THEN RStrip(SubSeq(s, 1, Len(s) - 1)) ELSE s

\* str.strip()
Strip(s) == RStrip(LStrip(s))

\* str.startswith(p)
StartsWith(s, p) == Len(s) >= Len(p) /\ SubSeq(s, 1, Len(p)) = p

\* str.lower(), on the alphabet the texts use
LowerChar(c) ==
    CASE c = "F" -> "f"
      [] c = "G" -> "g"
      [] c = "C" -> "c"
      [] OTHER -> c

Lower(s) == [i \in 1..Len(s) |-> LowerChar(s[i])]

\* '\n'.join(lines)
RECURSIVE JoinLines(_)
JoinLines(ls) ==
    IF ls = <<>> THEN <<>>
    ELSE IF Len(ls) = 1 THEN ls[1]
    ELSE JoinLines(SubSeq(ls, 1, Len(ls) \div 2)) \o <<"\n">>
         \o JoinLines(SubSeq(ls, Len(ls) \div 2 + 1, Len(ls)))

RECURSIVE Flatten(_)
Flatten(ss) == IF ss = <<>> THEN <<>> ELSE Head(ss) \o Flatten(Tail(ss))

RECURSIVE SumSeq(_)
SumSeq(s) == IF s = <<>> THEN 0 ELSE Head(s) + SumSeq(Tail(s))

Max(S) == CHOOSE m \in S : \A n \in S : n <= m
Min(S) == CHOOSE m \in S : \A n \in S : m <= n

\* round(num/den) to the nearest integer, ties to the even one (Python round)
RoundDiv(num, den) ==
    LET q == num \div den
        r == num % den
    IN  IF 2 * r < den THEN q
        ELSE IF 2 * r > den THEN q + 1
        ELSE IF q % 2 = 0 THEN q ELSE q + 1

-----------------------------------------------------------------------------
(* Source texts *)

\* the prefix that makes a function a test function
TestPrefix == <<"t", "e", "s", "t", "_">>
DefKeyword == <<"d", "e", "f">>
Indent == <<" ", " ", " ", " ">>
ParamNames == <<"a", "b", "c", "d", "e", "f", "g">>

\* the first n parameter names, a comma between two of them
Params(n) ==
    IF n = 0 THEN <<>>
    ELSE [k \in 1..(2 * n - 1) |->
             IF k % 2 = 1 THEN ParamNames[(k + 1) \div 2] ELSE ","]

\* the parameter list of a signature: posonly positional-only parameters,
\* closed by a slash, and nargs ordinary ones
ParamList(posonly, nargs) ==
    IF posonly = 0 THEN Params(nargs)
    ELSE SubSeq(Params(posonly + nargs), 1, 2 * posonly - 1)
         \o <<",", "/">>
         \o SubSeq(Params(posonly + nargs), 2 * posonly,
                   Len(Params(posonly + nargs)))

\* the name a, and n - 1 times " or a" after it
OrChain(n) ==
    IF n <= 1 THEN <<"a">>
    ELSE [k \in 1..(5 * n - 4) |->
             IF k = 1 THEN "a"
             ELSE <<" ", "o", "r", " ", "a">>[((k - 2) % 5) + 1]]

\* the source line of one body statement
StmtLine(st) ==
    Indent \o
    (CASE st.kind = "expr"   -> st.id
       [] st.kind = "if"     -> <<"i", "f", " ", "a", ":", " ", "b">>
       [] st.kind = "while"  -> <<"w", "h", "i", "l", "e", " ", "a", ":",
                                  " ", "b">>
       [] st.kind = "for"    -> <<"f", "o", "r", " ", "a", " ", "i", "n",
                                  " ", "b", ":", " ", "c">>
       [] st.kind = "with"   -> <<"w", "i", "t", "h", " ", "a", ":", " ",
                                  "b">>
       [] st.kind = "boolop" -> OrChain(st.n))

\* a string literal standing as the first statement of a body
DocLine(doctext) == <<"\"">> \o doctext \o <<"\"">>

\* the source lines of one body statement: a nested function definition (or
\* a method in a class body) is its signature line, its docstring and its
\* own statements, one level deeper
StmtLines(st) ==
    IF st.kind = "def"
    THEN << Indent \o DefKeyword \o <<" ">> \o st.name \o <<"(">>
              \o Params(st.nargs) \o <<")", ":">> >>
         \o (IF st.doc THEN << Indent \o Indent \o DocLine(st.doctext) >>
                       ELSE <<>>)
         \o [i \in 1..Len(st.body) |-> Indent \o StmtLine(st.body[i])]
    ELSE IF st.kind = "try"
    THEN << Indent \o <<"t", "r", "y", ":">>,
            Indent \o Indent \o <<"a">>,
            Indent \o <<"e", "x", "c", "e", "p", "t", " ", "E", ":">>,
            Indent \o Indent \o <<"b">> >>
    ELSE << StmtLine(st) >>

BlankLines(n) == [i \in 1..n |-> <<>>]

\* the lines an item occupies in the text
ItemLines(it) ==
    CASE it.kind = "def" ->
           << DefKeyword \o <<" ">> \o it.name \o <<"(">>
                \o ParamList(it.posonly, it.nargs) \o <<")", ":">> >>
           \o (IF it.doc THEN << Indent \o DocLine(it.doctext) >> ELSE <<>>)
           \o (IF it.body # <<>> THEN BlankLines(it.gap) ELSE <<>>)
           \o Flatten([i \in 1..Len(it.body) |-> StmtLines(it.body[i])])
      [] it.kind = "class" ->
           << <<"c", "l", "a", "s", "s", " ">> \o it.name \o <<":">> >>
           \o (IF it.doc THEN << Indent \o DocLine(it.doctext) >>
               ELSE IF it.methods = <<>>
               THEN << Indent \o <<"p", "a", "s", "s">> >>
               ELSE <<>>)
           \o Flatten([i \in 1..Len(it.methods) |-> StmtLines(it.methods[i])])
      [] it.kind = "import"  -> << <<"i", "m", "p", "o", "r", "t", " ", "m">> >>
      [] it.kind = "stmt"    -> [i \in 1..it.count |-> <<"a">>]
      [] it.kind = "comment" -> << <<"#", " ", "c">> >>
      [] it.kind = "blank"   -> << <<" ">> >>
      [] it.kind = "empty"   -> << <<>> >>
      [] it.kind = "icomment" -> << Indent \o <<"#", " ", "c">> >>
      [] it.kind = "bad" ->
           << <<"d", "e", "f", " ", "i", "n", "v", "a", "l", "i", "d", " ",
                "s", "y", "n", "t", "a", "x">> >>

\* code.split('\n'): the empty text is one empty line
Lines(c) ==
    IF c = <<>> THEN << <<>> >>
    ELSE Flatten([i \in 1..Len(c) |-> ItemLines(c[i])])

\* an item the grammar rejects: the malformed line, or a def with no body
Malformed(it) ==
    \/ it.kind = "bad"
    \/ it.kind = "def" /\ ~it.doc /\ it.body = <<>>
    \/ it.kind = "def" /\ \E j \in 1..Len(it.body) :
           it.body[j].kind = "def" /\ ~it.body[j].doc /\ it.body[j].body = <<>>
    \/ it.kind = "class" /\ \E j \in 1..Len(it.methods) :
           ~it.methods[j].doc /\ it.methods[j].body = <<>>

\* the node of the function definition st nested at line lineno
NestedNode(st, lineno) ==
    [item |-> [kind |-> "def", name |-> st.name, nargs |-> st.nargs,
               posonly |-> 0, doc |-> st.doc, doctext |-> st.doctext,
               gap |-> 0, body |-> st.body],
     lineno |-> lineno,
     end_lineno |-> lineno + Len(StmtLines(st)) - 1,
     col_offset |-> Len(Indent)]

\* the nodes of the function definitions nested in the item it (in a
\* function body, or as the methods of a class), whose first line is lineno
NestedNodes(it, lineno) ==
    IF it.kind = "class"
    THEN [j \in 1..Len(it.methods) |->
             NestedNode(it.methods[j],
                        lineno + 1 + (IF it.doc THEN 1 ELSE 0)
                        + SumSeq([k \in 1..(j - 1) |->
                                     Len(StmtLines(it.methods[k]))]))]
    ELSE IF it.kind # "def" THEN <<>>
    ELSE Flatten([j \in 1..Len(it.body) |->
             IF it.body[j].kind = "def"
             THEN << NestedNode(it.body[j],
                        lineno + 1 + (IF it.doc THEN 1 ELSE 0) + it.gap
                        + SumSeq([k \in 1..(j - 1) |->
                                     Len(StmtLines(it.body[k]))])) >>
             ELSE <<>>])

\* the line before the first line of the i-th item of the text
LinesBefore(c, i) == SumSeq([k \in 1..(i - 1) |-> Len(ItemLines(c[k]))])

\* ast.parse(code): SyntaxError, or the tree: the items with their positions
AstParse(c) ==
    IF \E i \in 1..Len(c) : Malformed(c[i])
    THEN [raised |-> TRUE]
    ELSE [raised |-> FALSE,
          tree |-> [body |-> [i \in 1..Len(c) |->
                       [item |-> c[i],
                        lineno |-> LinesBefore(c, i) + 1,
                        end_lineno |-> LinesBefore(c, i) + Len(ItemLines(c[i])),
                        col_offset |-> 0]],
                    nested |-> Flatten([i \in 1..Len(c) |->
                       NestedNodes(c[i], LinesBefore(c, i) + 1)])]]

\* [node for node in ast.walk(tree) if isinstance(node, ast.<kind>)]:
\* breadth first, the top-level nodes before the nested ones
NodesOfKind(t, kind) ==
    SelectSeq(t.body \o t.nested, LAMBDA n : n.item.kind = kind)

\* the segment starts at the node's column of its first line
DropColumns(seg, col_offset) ==
    [i \in 1..Len(seg) |->
        IF i = 1 THEN SubSeq(seg[1], col_offset + 1, Len(seg[1])) ELSE seg[i]]

\* ast.get_source_segment(code, node).split('\n')
SourceSegmentLines(c, node) ==
    DropColumns(SubSeq(Lines(c), node.lineno, node.end_lineno),
                node.col_offset)

\* node.name.startswith('test_')
IsTestName(name) == StartsWith(name, TestPrefix)

-----------------------------------------------------------------------------
(* DuplicateCodeDetector *)

\* _empty_result()
_empty_result ==
    [duplicate_pairs |-> 0,
     duplicates |-> <<>>,
     duplication_percent |-> 0,
     severity |-> "none"]

\* _normalize_code(code), code given as its lines
_normalize_code(codeLines) ==
    LET stripped == [i \in 1..Len(codeLines) |-> Strip(codeLines[i])]
        lines == SelectSeq(stripped, LAMBDA l : l # <<>>)
    IN  Lower(JoinLines(lines))

\* length of the common run of a from i and b from j inside the windows,
\* counted four positions at a time where four more positions match
RECURSIVE RunLen(_, _, _, _, _, _)
RunLen(a, i, ahi, b, j, bhi) ==
    IF i > ahi \/ j > bhi \/ a[i] # b[j] THEN 0
    ELSE IF /\ i + 3 <= ahi /\ j + 3 <= bhi
            /\ a[i + 1] = b[j + 1]
            /\ a[i + 2] = b[j + 2]
            /\ a[i + 3] = b[j + 3]
    THEN 4 + RunLen(a, i + 4, ahi, b, j + 4, bhi)
    ELSE 1 + RunLen(a, i + 1, ahi, b, j + 1, bhi)

\* the block find_longest_match returns, of the blocks <<i, j, size>> that
\* start at a matching pair of positions
BestBlock(blocks, alo, blo) ==
    IF blocks = {} THEN [i |-> alo, j |-> blo, k |-> 0]
    ELSE LET k == Max({m[3] : m \in blocks})
             i == Min({m[1] : m \in {q \in blocks : q[3] = k}})
             j == Min({m[2] : m \in {q \in blocks : q[3] = k /\ q[1] = i}})
         IN  [i |-> i, j |-> j, k |-> k]

\* SequenceMatcher.find_longest_match (no junk; texts shorter than the 200
\* characters at which autojunk starts): the longest block, of those the one
\* starting earliest in a, of those the one starting earliest in b
FindLongestMatch(a, alo, ahi, b, blo, bhi) ==
    BestBlock({<<p[1], p[2], RunLen(a, p[1], ahi, b, p[2], bhi)>> :
                  p \in {q \in (alo..ahi) \X (blo..bhi) : a[q[1]] = b[q[2]]}},
              alo, blo)

\* SequenceMatcher.get_matching_blocks: total size of the matching blocks
RECURSIVE MatchCount(_, _, _, _, _, _)
\* the block m, and the blocks to its left and to its right
MatchAround(m, a, alo, ahi, b, blo, bhi) ==
    IF m.k = 0 THEN 0
    ELSE m.k
         + MatchCount(a, alo, m.i - 1, b, blo, m.j - 1)
         + MatchCount(a, m.i + m.k, ahi, b, m.j + m.k, bhi)

MatchCount(a, alo, ahi, b, blo, bhi) ==
    IF alo > ahi \/ blo > bhi THEN 0
    ELSE MatchAround(FindLongestMatch(a, alo, ahi, b, blo, bhi),
                     a, alo, ahi, b, blo, bhi)

\* mutant: the ratio M/T, without the factor 2
_calculate_similarity_NoDouble(code1, code2) ==
    IF Len(code1) + Len(code2) = 0 THEN [num |-> 1, den |-> 1]
    ELSE [num |-> MatchCount(code1, 1, Len(code1), code2, 1, Len(code2)),
          den |-> Len(code1) + Len(code2)]

\* _calculate_similarity(code1, code2): SequenceMatcher(None, code1,
\* code2).ratio(), the fraction 2*M/T (1.0 when both are empty)
_calculate_similarity(code1, code2) ==
    IF Len(code1) + Len(code2) = 0 THEN [num |-> 1, den |-> 1]
    ELSE [num |-> 2 * MatchCount(code1, 1, Len(code1), code2, 1, Len(code2)),
          den |-> Len(code1) + Len(code2)]

\* mutant: the threshold is exclusive
AtLeastThreshold_Strict(sim) == 4 * sim.num > 3 * sim.den

\* similarity >= 0.75
AtLeastThreshold(sim) == 4 * sim.num >= 3 * sim.den

\* mutant: medium needs both conditions
_calculate_severity_Both(duplicate_pairs, pct) ==
    IF duplicate_pairs = 0 THEN "none"
    ELSE IF duplicate_pairs <= 2 /\ pct.num < 30 * pct.den THEN "low"
    ELSE IF duplicate_pairs <= 5 /\ pct.num < 50 * pct.den THEN "medium"
    ELSE "high"

\* _calculate_severity(duplicate_pairs, duplication_percent), the percentage
\* being the exact fraction pct.num / pct.den
_calculate_severity(duplicate_pairs, pct) ==
    IF duplicate_pairs = 0 THEN "none"
    ELSE IF duplicate_pairs <= 2 /\ pct.num < 30 * pct.den THEN "low"
    ELSE IF duplicate_pairs <= 5 \/ pct.num < 50 * pct.den THEN "medium"
    ELSE "high"

\* mutant: test functions are not skipped
Candidates_WithTests(c, t, minLines) ==
    LET defs == NodesOfKind(t, "def")
        \* one loop iteration: the entry, and whether it is appended
        extracted == [i \in 1..Len(defs) |->
            LET func_code == SourceSegmentLines(c, defs[i])
                lines == SelectSeq(func_code,
                            LAMBDA l : Strip(l) # <<>>
                                       /\ ~StartsWith(Strip(l), DefKeyword))
            IN  [keep |-> Len(lines) >= minLines,
                 entry |-> [name |-> defs[i].item.name,
                            code |-> func_code,
                            normalized |-> _normalize_code(func_code),
                            line |-> defs[i].lineno]]]
        kept == SelectSeq(extracted, LAMBDA x : x.keep)
    IN  [i \in 1..Len(kept) |-> kept[i].entry]

\* the candidate list detect() extracts (its local variable functions)
Candidates(c, t, minLines) ==
    LET defs == SelectSeq(NodesOfKind(t, "def"),
                          LAMBDA n : ~IsTestName(n.item.name))
        \* one loop iteration: the entry, and whether it is appended
        extracted == [i \in 1..Len(defs) |->
            LET func_code == SourceSegmentLines(c, defs[i])
                lines == SelectSeq(func_code,
                            LAMBDA l : Strip(l) # <<>>
                                       /\ ~StartsWith(Strip(l), DefKeyword))
            IN  [keep |-> Len(lines) >= minLines,
                 entry |-> [name |-> defs[i].item.name,
                            code |-> func_code,
                            normalized |-> _normalize_code(func_code),
                            line |-> defs[i].lineno]]]
        kept == SelectSeq(extracted, LAMBDA x : x.keep)
    IN  [i \in 1..Len(kept) |-> kept[i].entry]

\* mutant: the inner loop starts at i, not at i + 1
RECURSIVE PairsFrom_WithSelf(_, _, _)
PairsFrom_WithSelf(i, j, n) ==
    IF i > n THEN <<>>
    ELSE IF j > n THEN PairsFrom_WithSelf(i + 1, i + 1, n)
    ELSE << <<i, j>> >> \o PairsFrom_WithSelf(i, j + 1, n)

\* the pairs (i, j), i < j, in the order of the two nested loops
RECURSIVE PairsFrom(_, _, _)
PairsFrom(i, j, n) ==
    IF i >= n THEN <<>>
    ELSE IF j > n THEN PairsFrom(i + 1, i + 2, n)
    ELSE << <<i, j>> >> \o PairsFrom(i, j + 1, n)

\* the entries of the iterations that appended one
SelectEntries(hits) == [h \in 1..Len(hits) |-> hits[h].entry]

\* one iteration of the inner loop, given the similarity of the two
\* functions: the entry, and whether the similarity reaches the threshold
Compared(f1, f2, similarity) ==
    [hit |-> AtLeastThreshold(similarity),
     entry |-> [function1 |-> f1.name,
                function2 |-> f2.name,
                similarity |-> RoundDiv(similarity.num * 1000,
                                        similarity.den),
                line1 |-> f1.line,
                line2 |-> f2.line]]

\* the comparison loop of detect(): the list duplicates
Duplicates(functions, pairs) ==
    SelectEntries(
        SelectSeq([k \in 1..Len(pairs) |->
                      Compared(functions[pairs[k][1]], functions[pairs[k][2]],
                               _calculate_similarity(
                                   functions[pairs[k][1]].normalized,
                                   functions[pairs[k][2]].normalized))],
                  LAMBDA x : x.hit))

\* the percentage of functions named in a pair, as an exact fraction
DuplicationPercent(functions, duplicates) ==
    [num |-> 100 * Cardinality(
                 {duplicates[h].function1 : h \in 1..Len(duplicates)}
                 \cup {duplicates[h].function2 : h \in 1..Len(duplicates)}),
     den |-> IF Len(functions) > 0 THEN Len(functions) ELSE 1]

\* the result of detect(), given its list duplicates and the percentage
Summary(duplicates, pct) ==
    [duplicate_pairs |-> Len(duplicates),
     duplicates |-> duplicates,
     duplication_percent |-> RoundDiv(pct.num * 10, pct.den),
     severity |-> _calculate_severity(Len(duplicates), pct)]

SummaryOf(functions, duplicates) ==
    Summary(duplicates, DuplicationPercent(functions, duplicates))

\* the comparison loop and the summary of detect(), on a candidate list
DetectIn(functions) ==
    SummaryOf(functions,
              Duplicates(functions, PairsFrom(1, 2, Len(functions))))

\* detect()
detect(c, t, minLines) ==
    IF t = None THEN _empty_result
    ELSE DetectIn(Candidates(c, t, minLines))

\* the dictionary analyze() builds from the result duplicates of detect()
AnalyzeResult(duplicates) ==
    [duplicate_pairs |-> duplicates.duplicate_pairs,
     duplicates |-> duplicates.duplicates,
     duplication_percent |-> duplicates.duplication_percent,
     severity |-> duplicates.severity]

\* DuplicateCodeDetector.analyze()
DuplicateCodeDetector_analyze(c, t, minLines) ==
    IF t = None THEN _empty_result
    ELSE AnalyzeResult(detect(c, t, minLines))

\* DuplicateCodeDetector.__init__: try: self.tree = ast.parse(code)
\* except SyntaxError: self.tree = None
DuplicateCodeDetector_init(c) ==
    LET r == AstParse(c)
    IN  IF r.raised THEN [raised |-> FALSE, tree |-> None]
        ELSE [raised |-> FALSE, tree |-> r.tree]

-----------------------------------------------------------------------------
(* CoverageAnalyzer *)

\* a file path: directory, stem and suffix; '' is the empty path
EmptyPath == [dir |-> "", stem |-> "", suffix |-> ""]
\* the default filepath / filename "code.py"
DefaultPath == [dir |-> "", stem |-> "code", suffix |-> ".py"]

\* mutant: only the definitions at top level are extracted
_extract_definitions_TopLevel(t) ==
    [functions |->
        [i \in 1..Len(SelectSeq(t.body, LAMBDA n : n.item.kind = "def")) |->
            [name |-> SelectSeq(t.body,
                                LAMBDA n : n.item.kind = "def")[i].item.name,
             line |-> SelectSeq(t.body,
                                LAMBDA n : n.item.kind = "def")[i].lineno,
             is_test |-> IsTestName(
                 SelectSeq(t.body,
                           LAMBDA n : n.item.kind = "def")[i].item.name)]],
     classes |->
        [i \in 1..Len(SelectSeq(t.body, LAMBDA n : n.item.kind = "class")) |->
            [name |-> SelectSeq(t.body,
                                LAMBDA n : n.item.kind = "class")[i].item.name,
             line |-> SelectSeq(t.body,
                                LAMBDA n : n.item.kind = "class")[i].lineno]]]

\* _extract_definitions(): functions and classes of the tree, in walk order
_extract_definitions(t) ==
    LET defs == NodesOfKind(t, "def")
        cls == NodesOfKind(t, "class")
    IN  [functions |-> [i \in 1..Len(defs) |->
                          [name |-> defs[i].item.name,
                           line |-> defs[i].lineno,
                           is_test |-> IsTestName(defs[i].item.name)]],
         classes |-> [i \in 1..Len(cls) |->
                          [name |-> cls[i].item.name,
                           line |-> cls[i].lineno]]]

\* the three relative paths _check_test_file_exists probes
TestFilePatterns(base_name) ==
    << <<"tests/test_", base_name, ".py">>,
       <<"test_", base_name, ".py">>,
       <<base_name, "_test.py">> >>

\* mutant: the default path is probed like any other
_check_test_file_exists_NoSentinel(filepath, exists) ==
    IF filepath = EmptyPath THEN FALSE
    ELSE \E k \in 1..3 : TestFilePatterns(filepath.stem)[k] \in exists

\* _check_test_file_exists(); exists is the set of paths on disk
_check_test_file_exists(filepath, exists) ==
    IF filepath = EmptyPath \/ filepath = DefaultPath THEN FALSE
    ELSE LET base_name == filepath.stem
             pats == TestFilePatterns(base_name)
         IN  \E k \in 1..Len(pats) : pats[k] \in exists

\* check_test_presence()
check_test_presence(functions, filepath, exists) ==
    LET has_tests_in_file == \E i \in 1..Len(functions) : functions[i].is_test
        has_test_file == _check_test_file_exists(filepath, exists)
    IN  has_tests_in_file \/ has_test_file

\* mutant: the ratio of tests to functions is not capped at 1.0
estimate_coverage_NoCap(functions, filepath, exists) ==
    IF check_test_presence(functions, filepath, exists)
    THEN LET test_functions ==
                 Len(SelectSeq(functions, LAMBDA f : f.is_test))
             non_test_functions == Len(functions) - test_functions
         IN  IF non_test_functions = 0
             THEN (IF test_functions > 0 THEN 1000 ELSE 0)
             ELSE RoundDiv(test_functions * 1000, non_test_functions)
    ELSE 0

\* estimate_coverage(), in tenths of a percent
estimate_coverage(functions, filepath, exists) ==
    IF check_test_presence(functions, filepath, exists)
    THEN LET test_functions ==
                 Len(SelectSeq(functions, LAMBDA f : f.is_test))
             non_test_functions == Len(functions) - test_functions
         IN  IF non_test_functions = 0
             THEN (IF test_functions > 0 THEN 1000 ELSE 0)
             ELSE IF test_functions >= non_test_functions THEN 1000
             ELSE RoundDiv(test_functions * 1000, non_test_functions)
    ELSE 0

\* mutant: the bounds of the levels are exclusive
_get_coverage_level_Strict(coverage) ==
    IF coverage > 800 THEN "excellent"
    ELSE IF coverage > 600 THEN "good"
    ELSE IF coverage > 400 THEN "moderate"
    ELSE IF coverage > 0 THEN "low"
    ELSE "none"

\* _get_coverage_level(coverage), coverage in tenths
_get_coverage_level(coverage) ==
    IF coverage >= 800 THEN "excellent"
    ELSE IF coverage >= 600 THEN "good"
    ELSE IF coverage >= 400 THEN "moderate"
    ELSE IF coverage > 0 THEN "low"
    ELSE "none"

\* CoverageAnalyzer._generate_recommendations(has_tests, coverage)
CoverageAnalyzer_generate_recommendations(has_tests, coverage) ==
    IF ~has_tests
    THEN << [msg |-> "Add unit tests to verify code functionality"],
            [msg |-> "Create tests/ directory with test files"] >>
    ELSE IF coverage < 600
    THEN << [msg |-> "Improve test coverage (current, target: 80%+)",
             current |-> coverage],
            [msg |-> "Add tests for untested functions"] >>
    ELSE <<>>

\* CoverageAnalyzer.analyze(); test_ratio is in hundredths
CoverageAnalyzer_analyze(functions, filepath, exists) ==
    LET has_tests == check_test_presence(functions, filepath, exists)
        coverage_estimate == estimate_coverage(functions, filepath, exists)
        test_functions == SelectSeq(functions, LAMBDA f : f.is_test)
        non_test_functions == SelectSeq(functions, LAMBDA f : ~f.is_test)
    IN  [has_tests |-> has_tests,
         coverage_estimate |-> coverage_estimate,
         test_count |-> Len(test_functions),
         function_count |-> Len(non_test_functions),
         test_ratio |-> IF non_test_functions # <<>>
                        THEN RoundDiv(Len(test_functions) * 100,
                                      Len(non_test_functions))
                        ELSE 0,
         coverage_level |-> _get_coverage_level(coverage_estimate),
         recommendations |->
             CoverageAnalyzer_generate_recommendations(has_tests,
                                                       coverage_estimate)]

\* CoverageAnalyzer.__init__(code, filepath): ast.parse is not guarded, so a
\* SyntaxError leaves the constructor
CoverageAnalyzer_new(c) ==
    LET r == AstParse(c)
    IN  IF r.raised THEN [raised |-> TRUE]
        ELSE [raised |-> FALSE,
              functions |-> _extract_definitions(r.tree).functions,
              classes |-> _extract_definitions(r.tree).classes]

-----------------------------------------------------------------------------
(* CodeMetrics *)

\* duplicate_detector.py: min_function_lines: int = 3
DefaultMinFunctionLines == 3

\* mutant: ast.parse not guarded by try/except
CodeMetrics_init_NoTry(c) ==
    LET r == AstParse(c)
    IN  IF r.raised THEN [raised |-> TRUE, tree |-> None]
        ELSE [raised |-> FALSE, tree |-> r.tree]

\* CodeMetrics.__init__: try: self.tree = ast.parse(code)
\* except SyntaxError: self.tree = None
CodeMetrics_init(c) ==
    LET r == AstParse(c)
    IN  IF r.raised THEN [raised |-> FALSE, tree |-> None]
        ELSE [raised |-> FALSE, tree |-> r.tree]

\* mutant: the comment marker looked for in the line as it stands
_count_code_lines_Unstripped(c) ==
    Len(SelectSeq(Lines(c),
                  LAMBDA line : Strip(line) # <<>>
                                /\ ~StartsWith(line, <<"#">>)))

\* mutant: blank lines counted as code (the test "stripped and" dropped)
_count_code_lines_NoBlankCheck(c) ==
    Len(SelectSeq(Lines(c),
                  LAMBDA line : ~StartsWith(Strip(line), <<"#">>)))

\* _count_code_lines()
_count_code_lines(c) ==
    Len(SelectSeq(Lines(c),
                  LAMBDA line : Strip(line) # <<>>
                                /\ ~StartsWith(Strip(line), <<"#">>)))

\* mutant: the names found by an earlier call are kept and added to
_function_info_Appending(t) ==
    [count |-> Len(NodesOfKind(t, "def")),
     names |-> (IF metrics = None THEN <<>> ELSE metrics.functions.names)
               \o [i \in 1..Len(NodesOfKind(t, "def")) |->
                      NodesOfKind(t, "def")[i].item.name]]

\* _function_info()
_function_info(t) ==
    LET functions == NodesOfKind(t, "def")
    IN  [count |-> Len(functions),
         names |-> [i \in 1..Len(functions) |-> functions[i].item.name]]

\* _class_info()
_class_info(t) ==
    LET classes == NodesOfKind(t, "class")
    IN  [count |-> Len(classes),
         names |-> [i \in 1..Len(classes) |-> classes[i].item.name]]

\* _import_info()
_import_info(t) == [count |-> Len(NodesOfKind(t, "import"))]

\* the nodes ast.walk visits below one body statement
\* mutant: the walk does not enter a nested function
StmtNodes_NoNested(st) ==
    CASE st.kind = "expr"   -> << [type |-> "Expr"], [type |-> "Name"] >>
      [] st.kind = "def"    -> << [type |-> "FunctionDef"],
                                  [type |-> "arguments"] >>
      [] st.kind = "if"     -> << [type |-> "If"], [type |-> "Name"],
                                  [type |-> "Expr"], [type |-> "Name"] >>
      [] st.kind = "while"  -> << [type |-> "While"], [type |-> "Name"],
                                  [type |-> "Expr"], [type |-> "Name"] >>
      [] st.kind = "for"    -> << [type |-> "For"], [type |-> "Name"],
                                  [type |-> "Name"], [type |-> "Expr"],
                                  [type |-> "Name"] >>
      [] st.kind = "with"   -> << [type |-> "With"], [type |-> "withitem"],
                                  [type |-> "Name"], [type |-> "Expr"],
                                  [type |-> "Name"] >>
      [] st.kind = "try"    -> << [type |-> "Try"], [type |-> "Expr"],
                                  [type |-> "Name"],
                                  [type |-> "ExceptHandler"],
                                  [type |-> "Name"], [type |-> "Expr"],
                                  [type |-> "Name"] >>
      [] st.kind = "boolop" -> << [type |-> "Expr"],
                                  [type |-> "BoolOp", values |-> st.n] >>
                               \o [i \in 1..st.n |-> [type |-> "Name"]]

RECURSIVE StmtNodes(_)
StmtNodes(st) ==
    CASE st.kind = "expr"   -> << [type |-> "Expr"], [type |-> "Name"] >>
      [] st.kind = "def"    -> << [type |-> "FunctionDef"],
                                  [type |-> "arguments"] >>
                               \o (IF st.doc THEN << [type |-> "Expr"],
                                                     [type |-> "Constant"] >>
                                             ELSE <<>>)
                               \o Flatten([i \in 1..Len(st.body) |->
                                              StmtNodes(st.body[i])])
      [] st.kind = "if"     -> << [type |-> "If"], [type |-> "Name"],
                                  [type |-> "Expr"], [type |-> "Name"] >>
      [] st.kind = "while"  -> << [type |-> "While"], [type |-> "Name"],
                                  [type |-> "Expr"], [type |-> "Name"] >>
      [] st.kind = "for"    -> << [type |-> "For"], [type |-> "Name"],
                                  [type |-> "Name"], [type |-> "Expr"],
                                  [type |-> "Name"] >>
      [] st.kind = "with"   -> << [type |-> "With"], [type |-> "withitem"],
                                  [type |-> "Name"], [type |-> "Expr"],
                                  [type |-> "Name"] >>
      [] st.kind = "try"    -> << [type |-> "Try"], [type |-> "Expr"],
                                  [type |-> "Name"],
                                  [type |-> "ExceptHandler"],
                                  [type |-> "Name"], [type |-> "Expr"],
                                  [type |-> "Name"] >>
      [] st.kind = "boolop" -> << [type |-> "Expr"],
                                  [type |-> "BoolOp", values |-> st.n] >>
                               \o [i \in 1..st.n |-> [type |-> "Name"]]

\* ast.walk(node) for a function definition
WalkFunction(node) ==
    << [type |-> "FunctionDef"] >>
    \o (IF node.item.doc THEN << [type |-> "Expr"], [type |-> "Constant"] >>
                         ELSE <<>>)
    \o Flatten([i \in 1..Len(node.item.body) |-> StmtNodes(node.item.body[i])])

\* _calculate_complexity(node)
_calculate_complexity(node) ==
    LET children == WalkFunction(node)
        step(child) ==
            IF child.type \in {"If", "While", "For", "ExceptHandler", "With"}
            THEN 1
            ELSE IF child.type = "BoolOp" THEN child.values - 1
            ELSE 0
    IN  1 + SumSeq([i \in 1..Len(children) |-> step(children[i])])

\* mutant: test functions are measured like the others
_function_complexity_WithTests(t) ==
    LET functions == NodesOfKind(t, "def")
        complexities == [i \in 1..Len(functions) |->
                            _calculate_complexity(functions[i])]
        complex == SelectSeq(functions,
                             LAMBDA n : _calculate_complexity(n) > 10)
    IN  IF functions = <<>>
        THEN [average |-> 10, maximum |-> 1, complex_functions |-> <<>>]
        ELSE [average |-> RoundDiv(SumSeq(complexities) * 10,
                                   Len(complexities)),
              maximum |-> Max({complexities[i] : i \in 1..Len(complexities)}),
              complex_functions |->
                  [i \in 1..Len(complex) |->
                      [name |-> complex[i].item.name,
                       complexity |-> _calculate_complexity(complex[i]),
                       line |-> complex[i].lineno]]]

\* _function_complexity(); average is in tenths
_function_complexity(t) ==
    LET functions == SelectSeq(NodesOfKind(t, "def"),
                               LAMBDA n : ~IsTestName(n.item.name))
        complexities == [i \in 1..Len(functions) |->
                            _calculate_complexity(functions[i])]
        complex == SelectSeq(functions,
                             LAMBDA n : _calculate_complexity(n) > 10)
    IN  IF functions = <<>>
        THEN [average |-> 10, maximum |-> 1, complex_functions |-> <<>>]
        ELSE [average |-> RoundDiv(SumSeq(complexities) * 10,
                                   Len(complexities)),
              maximum |-> Max({complexities[i] : i \in 1..Len(complexities)}),
              complex_functions |->
                  [i \in 1..Len(complex) |->
                      [name |-> complex[i].item.name,
                       complexity |-> _calculate_complexity(complex[i]),
                       line |-> complex[i].lineno]]]

\* ast.get_docstring(node): the string of a leading string literal, or None
get_docstring(node) ==
    IF node.item.doc THEN [str |-> node.item.doctext] ELSE None

\* the truth value Python gives ast.get_docstring(node): None and the empty
\* string are false
Truthy(docstring) == docstring # None /\ docstring.str # <<>>

\* _check_docstrings(); coverage_percent is in tenths
_check_docstrings(t) ==
    LET functions == NodesOfKind(t, "def")
        classes == NodesOfKind(t, "class")
        functions_with_docs ==
            Len(SelectSeq(functions, LAMBDA f : Truthy(get_docstring(f))))
        classes_with_docs ==
            Len(SelectSeq(classes, LAMBDA k : Truthy(get_docstring(k))))
        total_items == Len(functions) + Len(classes)
        documented_items == functions_with_docs + classes_with_docs
    IN  [total_functions |-> Len(functions),
         functions_documented |-> functions_with_docs,
         total_classes |-> Len(classes),
         classes_documented |-> classes_with_docs,
         coverage_percent |-> IF total_items > 0
                              THEN RoundDiv(documented_items * 1000,
                                            total_items)
                              ELSE 0]

\* the issues _check_code_style finds for one function definition
StyleIssues(node) ==
    LET func_length == node.end_lineno - node.lineno
    IN  (IF func_length > 50
         THEN << [line |-> node.lineno,
                  message |-> [text |-> "is too long",
                               name |-> node.item.name,
                               n |-> func_length]] >>
         ELSE <<>>)
        \o
        (IF node.item.nargs > 5
         THEN << [line |-> node.lineno,
                  message |-> [text |-> "has too many parameters",
                               name |-> node.item.name,
                               n |-> node.item.nargs]] >>
         ELSE <<>>)

\* _check_code_style()
_check_code_style(t) ==
    LET functions == NodesOfKind(t, "def")
        issues == Flatten([i \in 1..Len(functions) |->
                              StyleIssues(functions[i])])
    IN  [issues_count |-> Len(issues), issues |-> issues]

\* _check_duplication(): DuplicateCodeDetector(self.code).analyze()
_check_duplication(c) ==
    DuplicateCodeDetector_analyze(c, DuplicateCodeDetector_init(c).tree,
                                  DefaultMinFunctionLines)

\* _check_coverage(): CoverageAnalyzer(self.code).analyze(); the filename is
\* not passed on, so the analyzer runs under its default filepath
_check_coverage(c, exists) ==
    LET analyzer == CoverageAnalyzer_new(c)
    IN  IF analyzer.raised THEN [raised |-> TRUE]
        ELSE [raised |-> FALSE,
              result |-> CoverageAnalyzer_analyze(analyzer.functions,
                                                  DefaultPath, exists)]

\* mutant: the grade thresholds compared with > instead of >=
LetterGrade_Strict(total) ==
    IF total > 900 THEN "A"
    ELSE IF total > 800 THEN "B"
    ELSE IF total > 700 THEN "C"
    ELSE IF total > 600 THEN "D"
    ELSE "F"

\* the letter grade of a total (in tenths)
LetterGrade(total) ==
    IF total >= 900 THEN "A"
    ELSE IF total >= 800 THEN "B"
    ELSE IF total >= 700 THEN "C"
    ELSE IF total >= 600 THEN "D"
    ELSE "F"

\* mutant: documentation weighted 20 instead of 15
DocScore1000_Weight20(doc_coverage) == doc_coverage * 20

\* doc_score = (doc_coverage / 100) * 15, in thousandths of a point
DocScore1000(doc_coverage) == doc_coverage * 15

\* the complexity score of an average complexity (in tenths)
ComplexityScore(avg_complexity) ==
    IF avg_complexity <= 50 THEN 20
    ELSE IF avg_complexity <= 100 THEN 15
    ELSE IF avg_complexity <= 150 THEN 10
    ELSE 5

\* the style score of an issue count
StyleScore(style_issues) ==
    IF style_issues = 0 THEN 20
    ELSE IF style_issues <= 3 THEN 15
    ELSE IF style_issues <= 10 THEN 10
    ELSE 5

\* mutant: no penalty for a text without functions
StructureScore_NoFunctionPenalty(function_count, code_lines) ==
    LET s0 == 15
        s2 == IF code_lines > 500 THEN s0 - 5 ELSE s0
    IN  IF s2 > 0 THEN s2 ELSE 0

\* the structure score
StructureScore(function_count, code_lines) ==
    LET s0 == 15
        s1 == IF function_count = 0 THEN s0 - 5 ELSE s0
        s2 == IF code_lines > 500 THEN s1 - 5 ELSE s1
    IN  IF s2 > 0 THEN s2 ELSE 0

\* mutant: nothing is given at 25 percent and more
DuplicationScore_Floor0(duplication_percent) ==
    IF duplication_percent = 0 THEN 15
    ELSE IF duplication_percent < 100 THEN 12
    ELSE IF duplication_percent < 250 THEN 8
    ELSE 0

\* the duplication score of a duplication percentage (in tenths)
DuplicationScore(duplication_percent) ==
    IF duplication_percent = 0 THEN 15
    ELSE IF duplication_percent < 100 THEN 12
    ELSE IF duplication_percent < 250 THEN 8
    ELSE 3

\* mutant: the bounds of the test coverage rows are exclusive
CoverageScore_Strict(coverage_estimate) ==
    IF coverage_estimate > 800 THEN 15
    ELSE IF coverage_estimate > 600 THEN 12
    ELSE IF coverage_estimate > 400 THEN 8
    ELSE IF coverage_estimate > 200 THEN 5
    ELSE 0

\* the test coverage score of a coverage estimate (in tenths)
CoverageScore(coverage_estimate) ==
    IF coverage_estimate >= 800 THEN 15
    ELSE IF coverage_estimate >= 600 THEN 12
    ELSE IF coverage_estimate >= 400 THEN 8
    ELSE IF coverage_estimate >= 200 THEN 5
    ELSE 0

\* _calculate_score(metrics); every score is in tenths of a point
_calculate_score(m) ==
    LET doc_score1000 == DocScore1000(m.docstrings.coverage_percent)
        complexity_score == ComplexityScore(m.complexity.average)
        style_score == StyleScore(m.code_style.issues_count)
        structure_score == StructureScore(m.functions.count, m.code_lines)
        duplication_score ==
            DuplicationScore(m.duplication.duplication_percent)
        coverage_score == CoverageScore(m.coverage.coverage_estimate)
        total == RoundDiv(doc_score1000
                          + 1000 * (complexity_score + style_score
                                    + structure_score + duplication_score
                                    + coverage_score),
                          100)
    IN  [total |-> total,
         letter_grade |-> LetterGrade(total),
         breakdown |->
            [documentation |-> RoundDiv(doc_score1000, 100),
             complexity |-> complexity_score * 10,
             code_style |-> style_score * 10,
             structure |-> structure_score * 10,
             duplication |-> duplication_score * 10,
             test_coverage |-> coverage_score * 10]]

\* _empty_metrics()
_empty_metrics(fname) ==
    [filename |-> fname,
     total_lines |-> 0,
     code_lines |-> 0,
     functions |-> [count |-> 0, names |-> <<>>],
     classes |-> [count |-> 0, names |-> <<>>],
     imports |-> [count |-> 0],
     complexity |-> [average |-> 0, maximum |-> 0, complex_functions |-> <<>>],
     docstrings |-> [total_functions |-> 0,
                     functions_documented |-> 0,
                     total_classes |-> 0,
                     classes_documented |-> 0,
                     coverage_percent |-> 0],
     code_style |-> [issues_count |-> 0, issues |-> <<>>],
     duplication |-> [duplicate_pairs |-> 0,
                      duplicates |-> <<>>,
                      duplication_percent |-> 0,
                      severity |-> "none"],
     coverage |-> [has_tests |-> FALSE,
                   test_functions |-> 0,
                   coverage_estimate |-> 0,
                   coverage_level |-> "none"],
     overall_score |-> [total |-> 0,
                        letter_grade |-> "F",
                        breakdown |-> [documentation |-> 0,
                                       complexity |-> 0,
                                       code_style |-> 0,
                                       structure |-> 0,
                                       duplication |-> 0,
                                       test_coverage |-> 0]]]

\* the metrics dict analyze() builds before scoring
MetricsBody(c, fname, t, exists) ==
    [filename |-> fname,
     total_lines |-> Len(Lines(c)),
     code_lines |-> _count_code_lines(c),
     functions |-> _function_info(t),
     classes |-> _class_info(t),
     imports |-> _import_info(t),
     complexity |-> _function_complexity(t),
     docstrings |-> _check_docstrings(t),
     code_style |-> _check_code_style(t),
     duplication |-> _check_duplication(c),
     coverage |-> _check_coverage(c, exists).result]

\* metrics['overall_score'] = self._calculate_score(metrics)
WithScore(m) ==
    [filename |-> m.filename,
     total_lines |-> m.total_lines,
     code_lines |-> m.code_lines,
     functions |-> m.functions,
     classes |-> m.classes,
     imports |-> m.imports,
     complexity |-> m.complexity,
     docstrings |-> m.docstrings,
     code_style |-> m.code_style,
     duplication |-> m.duplication,
     coverage |-> m.coverage,
     overall_score |-> _calculate_score(m)]

\* CodeMetrics.analyze(): the report, or the exception that leaves it
CodeMetrics_analyze(c, fname, t, exists) ==
    IF t = None THEN [raised |-> FALSE, report |-> _empty_metrics(fname)]
    ELSE IF _check_coverage(c, exists).raised THEN [raised |-> TRUE]
    ELSE [raised |-> FALSE,
          report |-> WithScore(MetricsBody(c, fname, t, exists))]

-----------------------------------------------------------------------------
(* ReportGenerator *)

\* mutant: nothing is said when there is nothing to recommend
_generate_recommendations_NoDefault(m) ==
    (IF m.docstrings.coverage_percent < 800
     THEN << [msg |-> "Add docstrings to functions and classes",
              current |-> m.docstrings.coverage_percent] >>
     ELSE <<>>)
    \o (IF m.complexity.complex_functions # <<>>
        THEN << [msg |-> "Reduce complexity of functions",
                 names |-> [i \in 1..Min({3,
                                Len(m.complexity.complex_functions)}) |->
                              m.complexity.complex_functions[i].name]] >>
        ELSE <<>>)
    \o (IF m.duplication.duplicate_pairs > 0
        THEN << [msg |-> "Remove code duplication",
                 pairs |-> m.duplication.duplicate_pairs] >>
        ELSE <<>>)
    \o (IF ~m.coverage.has_tests
        THEN << [msg |-> "Add unit tests to verify code functionality"] >>
        ELSE IF m.coverage.coverage_estimate < 800
        THEN << [msg |-> "Increase test coverage",
                 current |-> m.coverage.coverage_estimate] >>
        ELSE <<>>)
    \o (IF m.code_style.issues_count > 0
        THEN << [msg |-> "Fix code style issues",
                 issues |-> m.code_style.issues_count] >>
        ELSE <<>>)

\* what _generate_recommendations appends for each of its five checks, in
\* their order: documentation, complexity, duplication, tests, style
Recommended(m) ==
    (IF m.docstrings.coverage_percent < 800
     THEN << [msg |-> "Add docstrings to functions and classes",
              current |-> m.docstrings.coverage_percent] >>
     ELSE <<>>)
    \o (IF m.complexity.complex_functions # <<>>
        THEN << [msg |-> "Reduce complexity of functions",
                 names |-> [i \in 1..Min({3,
                                Len(m.complexity.complex_functions)}) |->
                              m.complexity.complex_functions[i].name]] >>
        ELSE <<>>)
    \o (IF m.duplication.duplicate_pairs > 0
        THEN << [msg |-> "Remove code duplication",
                 pairs |-> m.duplication.duplicate_pairs] >>
        ELSE <<>>)
    \o (IF ~m.coverage.has_tests
        THEN << [msg |-> "Add unit tests to verify code functionality"] >>
        ELSE IF m.coverage.coverage_estimate < 800
        THEN << [msg |-> "Increase test coverage",
                 current |-> m.coverage.coverage_estimate] >>
        ELSE <<>>)
    \o (IF m.code_style.issues_count > 0
        THEN << [msg |-> "Fix code style issues",
                 issues |-> m.code_style.issues_count] >>
        ELSE <<>>)

\* the list, or the one entry that stands for an empty list
OrExcellent(recs) ==
    IF recs = <<>>
    THEN << [msg |-> "Excellent code quality! No major improvements needed."] >>
    ELSE recs

\* ReportGenerator._generate_recommendations(metrics)
_generate_recommendations(m) == OrExcellent(Recommended(m))

-----------------------------------------------------------------------------
(* The texts and environments the analyses are run on *)

\* longest text, in top-level items
MaxItems == 2
\* most calls of CodeMetrics.analyze() on one text
MaxRuns == 2
\* largest min_function_lines a detector is constructed with
MaxMinLines == 3

Expr(id) == [kind |-> "expr", id |-> id]
Def(name, nargs, doc, gap, body) ==
    [kind |-> "def", name |-> name, nargs |-> nargs, posonly |-> 0,
     doc |-> doc, doctext |-> IF doc THEN <<"d">> ELSE <<>>,
     gap |-> gap, body |-> body]
\* a function whose first statement is the string literal doctext
DefDoc(name, doctext, body) ==
    [kind |-> "def", name |-> name, nargs |-> 0, posonly |-> 0,
     doc |-> TRUE, doctext |-> doctext, gap |-> 0, body |-> body]
\* a function with posonly positional-only and nargs ordinary parameters
DefParams(name, posonly, nargs, body) ==
    [kind |-> "def", name |-> name, nargs |-> nargs, posonly |-> posonly,
     doc |-> FALSE, doctext |-> <<>>, gap |-> 0, body |-> body]
\* a class, with a docstring or without, and its methods
Class(name, doc, methods) ==
    [kind |-> "class", name |-> name, doc |-> doc,
     doctext |-> IF doc THEN <<"d">> ELSE <<>>, methods |-> methods]
\* a function definition inside a function body or a class body
Inner(name, nargs, doc, body) ==
    [kind |-> "def", name |-> name, nargs |-> nargs, doc |-> doc,
     doctext |-> IF doc THEN <<"d">> ELSE <<>>, body |-> body]

NameF == <<"f">>
NameG == <<"g">>
NameUpperF == <<"F">>
NameTestF == <<"t", "e", "s", "t", "_", "f">>

BodyABA == << Expr(<<"a">>), Expr(<<"b">>), Expr(<<"a">>) >>
BodyCAA == << Expr(<<"c">>), Expr(<<"a">>), Expr(<<"a">>) >>
BodyA == << Expr(<<"a">>) >>
BodyDefxBA == << Expr(<<"d", "e", "f", "x">>), Expr(<<"b">>), Expr(<<"a">>) >>
BodyIfIfIf == << [kind |-> "if"], [kind |-> "if"], [kind |-> "if"] >>
BodyLoops ==
    << [kind |-> "while"], [kind |-> "for"], [kind |-> "with"],
       [kind |-> "try"] >>
BodyNested ==
    << Inner(<<"r">>, 0, FALSE, << [kind |-> "if"] >>),
       [kind |-> "if"] >>

\* the items general texts are built from
Pool ==
    { Def(NameF, 0, FALSE, 0, BodyABA),
      Def(NameG, 0, FALSE, 0, BodyABA),
      Def(NameTestF, 0, TRUE, 0, BodyABA),
      \* six parameters, a docstring and a span of more than 50 lines
      Def(<<"h">>, 6, TRUE, 51, << [kind |-> "if"] >>),
      \* one boolean expression of 16 operands
      Def(<<"k">>, 0, FALSE, 0, << [kind |-> "boolop", n |-> 16] >>),
      \* a signature with nothing under it
      Def(<<"e">>, 0, FALSE, 0, <<>>),
      \* three independent if statements
      Def(<<"p">>, 0, FALSE, 0, BodyIfIfIf),
      \* a while and a for loop, a with block and an exception handler
      Def(<<"w">>, 0, FALSE, 0, BodyLoops),
      \* a nested function with an if statement of its own
      Def(<<"q">>, 0, FALSE, 0, BodyNested),
      Class(<<"C">>, TRUE, <<>>),
      [kind |-> "import"],
      [kind |-> "stmt", count |-> 501],
      [kind |-> "comment"],
      [kind |-> "blank"],
      [kind |-> "bad"] }

Texts == UNION {[1..n -> Pool] : n \in 0..MaxItems}

\* the items of the texts whose definitions and lines are counted:
\* functions with and without a docstring, a class with methods, a nested
\* function, signatures and spans on both sides of the style limits, and
\* lines that are not code
MetricsPool ==
    { Def(NameF, 0, FALSE, 0, BodyABA),
      Def(NameG, 0, TRUE, 0, BodyABA),
      Def(NameTestF, 0, TRUE, 0, BodyA),
      \* a function whose docstring is the empty string
      DefDoc(<<"s">>, <<>>, BodyA),
      \* a documented class with a documented and an undocumented method
      Class(<<"C">>, TRUE,
            << Inner(<<"m">>, 1, TRUE, << [kind |-> "if"] >>),
               Inner(<<"n">>, 1, FALSE, BodyA) >>),
      Class(<<"G">>, FALSE, <<>>),
      \* a documented function nested in an undocumented one
      Def(<<"q">>, 0, FALSE, 0,
          << Inner(<<"r">>, 0, TRUE, << [kind |-> "if"] >>),
             [kind |-> "if"] >>),
      \* five parameters and a span of 50 lines
      Def(<<"l">>, 5, FALSE, 49, BodyA),
      \* six parameters and a span of 51 lines
      Def(<<"h">>, 6, FALSE, 50, BodyA),
      \* six parameters
      Def(<<"u">>, 6, FALSE, 0, BodyA),
      \* six positional-only parameters
      DefParams(<<"z">>, 6, 0, BodyA),
      [kind |-> "import"],
      [kind |-> "stmt", count |-> 1],
      [kind |-> "comment"],
      [kind |-> "blank"],
      [kind |-> "empty"],
      \* a comment after leading spaces
      [kind |-> "icomment"] }

MetricsTexts == UNION {[1..n -> MetricsPool] : n \in 0..MaxItems}

\* most functions in a text given to the duplicate detector alone
MaxFuncs == 3

\* the functions those texts are built from
DetectorPool ==
    { Def(NameF, 0, FALSE, 0, BodyABA),
      Def(NameG, 0, FALSE, 0, BodyABA),
      Def(NameG, 0, FALSE, 0, BodyCAA),
      Def(NameUpperF, 0, FALSE, 0, BodyABA),
      Def(NameTestF, 0, FALSE, 0, BodyABA),
      Def(NameF, 0, FALSE, 0, BodyA),
      \* three body lines, the first of them starting with the letters def
      Def(NameG, 0, FALSE, 0, BodyDefxBA) }

DetectorTexts == UNION {[1..n -> DetectorPool] : n \in 0..MaxFuncs}

\* functions of which one holds a nested function as long as the others, so
\* that the order of extraction is not the order of the lines
NestedPool ==
    { Def(NameF, 0, FALSE, 0, BodyABA),
      Def(NameG, 0, FALSE, 0, BodyCAA),
      Def(NameTestF, 0, FALSE, 0, BodyABA),
      Def(<<"q">>, 0, FALSE, 0,
          << Inner(<<"r">>, 0, FALSE, BodyABA), Expr(<<"a">>) >>) }

NestedTexts == UNION {[1..n -> NestedPool] : n \in 0..MaxFuncs}

ModulePath == [dir |-> "src/", stem |-> "m", suffix |-> ".py"]

\* (filename, files on disk) pairs
Environments ==
    { <<DefaultPath, {}>>,
      <<DefaultPath, {<<"test_", "code", ".py">>}>>,
      <<ModulePath, {}>>,
      <<ModulePath, {<<"tests/test_", "m", ".py">>}>> }

Parsable(c) == ~AstParse(c).raised

\* most functions in a text given to the coverage analyzer alone
MaxCovFuncs == 9

\* the functions those texts are built from: a function and a test function
CoveragePool ==
    { Def(NameF, 0, FALSE, 0, BodyA),
      Def(NameTestF, 0, FALSE, 0, BodyA) }

CoverageTexts == UNION {[1..n -> CoveragePool] : n \in 0..MaxCovFuncs}

\* (filepath, files on disk) pairs: no path, the default path and a module
\* path, without and with files at the places the heuristic probes
CoverageEnvironments ==
    { <<EmptyPath, {}>>,
      <<EmptyPath, {<<"test_", "", ".py">>}>>,
      <<DefaultPath, {}>>,
      <<DefaultPath, {<<"tests/test_", "code", ".py">>,
                      <<"test_", "code", ".py">>,
                      <<"code", "_test.py">>}>>,
      <<ModulePath, {}>>,
      <<ModulePath, {<<"tests/test_", "m", ".py">>}>>,
      <<ModulePath, {<<"test_", "m", ".py">>}>>,
      <<ModulePath, {<<"m", "_test.py">>}>>,
      <<ModulePath, {<<"test_", "code", ".py">>}>> }

\* most pairs _calculate_severity is called with
MaxPairs == 7

\* percentages, as exact fractions: 0, 29.9, 30, 30.1, 49.9, 50, 50.1, 60
\* and 100
Percents ==
    {[num |-> n, den |-> 10] :
        n \in {0, 299, 300, 301, 499, 500, 501, 600, 1000}}

-----------------------------------------------------------------------------
(* Operations *)

\* CodeMetrics(code, filename)
CodeMetricsNew ==
    /\ cmPc = "new" /\ ddPc = "new" /\ caPc = "new"
    /\ LET r == CodeMetrics_init(code)
       IN  IF r.raised
           THEN cmPc' = "raised" /\ tree' = tree
           ELSE cmPc' = "ready" /\ tree' = r.tree
    /\ UNCHANGED <<code, filename, min_function_lines, files, metrics,
                   ddPc, ddTree, ddResult, caPc, caFunctions, caClasses,
                   caResult>>
    /\ UNCHANGED sevVars
    /\ UNCHANGED scVars
    /\ UNCHANGED rgVars
    /\ UNCHANGED sumVars
    /\ UNCHANGED cmRuns

\* CodeMetrics.analyze()
CodeMetricsAnalyze ==
    /\ cmPc \in {"ready", "done"}
    /\ cmRuns < MaxRuns
    /\ cmRuns' = cmRuns + 1
    /\ LET r == CodeMetrics_analyze(code, filename, tree, files)
       IN  IF r.raised
           THEN cmPc' = "raised" /\ metrics' = metrics
           ELSE cmPc' = "done" /\ metrics' = r.report
    /\ UNCHANGED <<code, filename, min_function_lines, files, tree,
                   ddPc, ddTree, ddResult, caPc, caFunctions, caClasses,
                   caResult>>
    /\ UNCHANGED sevVars
    /\ UNCHANGED scVars
    /\ UNCHANGED rgVars
    /\ UNCHANGED sumVars

\* CodeMetrics(code, filename) once more: a fresh instance for the same text,
\* the report of the earlier call still at hand
CodeMetricsAgain ==
    /\ cmPc = "done"
    /\ cmRuns < MaxRuns
    /\ cmPc' = "ready"
    /\ tree' = CodeMetrics_init(code).tree
    /\ UNCHANGED <<code, filename, min_function_lines, files, metrics,
                   ddPc, ddTree, ddResult, caPc, caFunctions, caClasses,
                   caResult, cmRuns>>
    /\ UNCHANGED sevVars
    /\ UNCHANGED scVars
    /\ UNCHANGED rgVars
    /\ UNCHANGED sumVars

\* DuplicateCodeDetector(code, min_function_lines)
DetectorNew ==
    /\ cmPc = "new" /\ ddPc = "new" /\ caPc = "new"
    /\ LET r == DuplicateCodeDetector_init(code)
       IN  IF r.raised
           THEN ddPc' = "raised" /\ ddTree' = ddTree
           ELSE ddPc' = "ready" /\ ddTree' = r.tree
    /\ UNCHANGED <<code, filename, min_function_lines, files, cmPc, tree,
                   metrics, ddResult, caPc, caFunctions, caClasses, caResult>>
    /\ UNCHANGED sevVars
    /\ UNCHANGED scVars
    /\ UNCHANGED rgVars
    /\ UNCHANGED sumVars
    /\ UNCHANGED cmRuns

\* DuplicateCodeDetector.analyze()
DetectorAnalyze ==
    /\ ddPc = "ready"
    /\ ddResult' = DuplicateCodeDetector_analyze(code, ddTree,
                                                 min_function_lines)
    /\ ddPc' = "done"
    /\ UNCHANGED <<code, filename, min_function_lines, files, cmPc, tree,
                   metrics, ddTree, caPc, caFunctions, caClasses, caResult>>
    /\ UNCHANGED sevVars
    /\ UNCHANGED scVars
    /\ UNCHANGED rgVars
    /\ UNCHANGED sumVars
    /\ UNCHANGED cmRuns

\* DuplicateCodeDetector.detect()
DetectorDetect ==
    /\ ddPc = "ready"
    /\ ddResult' = detect(code, ddTree, min_function_lines)
    /\ ddPc' = "done"
    /\ UNCHANGED <<code, filename, min_function_lines, files, cmPc, tree,
                   metrics, ddTree, caPc, caFunctions, caClasses, caResult>>
    /\ UNCHANGED sevVars
    /\ UNCHANGED scVars
    /\ UNCHANGED rgVars
    /\ UNCHANGED sumVars
    /\ UNCHANGED cmRuns

\* CoverageAnalyzer(code, filepath)
CoverageNew ==
    /\ cmPc = "new" /\ ddPc = "new" /\ caPc = "new"
    /\ LET r == CoverageAnalyzer_new(code)
       IN  IF r.raised
           THEN /\ caPc' = "raised"
                /\ UNCHANGED <<caFunctions, caClasses>>
           ELSE /\ caPc' = "ready"
                /\ caFunctions' = r.functions
                /\ caClasses' = r.classes
    /\ UNCHANGED <<code, filename, min_function_lines, files, cmPc, tree,
                   metrics, ddPc, ddTree, ddResult, caResult>>
    /\ UNCHANGED sevVars
    /\ UNCHANGED scVars
    /\ UNCHANGED rgVars
    /\ UNCHANGED sumVars
    /\ UNCHANGED cmRuns

\* CoverageAnalyzer.analyze()
CoverageAnalyze ==
    /\ caPc = "ready"
    /\ caResult' = CoverageAnalyzer_analyze(caFunctions, filename, files)
    /\ caPc' = "done"
    /\ UNCHANGED <<code, filename, min_function_lines, files, cmPc, tree,
                   metrics, ddPc, ddTree, ddResult, caFunctions, caClasses>>
    /\ UNCHANGED sevVars
    /\ UNCHANGED scVars
    /\ UNCHANGED rgVars
    /\ UNCHANGED sumVars
    /\ UNCHANGED cmRuns

\* _calculate_severity(duplicate_pairs, duplication_percent)
CalculateSeverity ==
    /\ sevResult = NotCalled
    /\ sevResult' = _calculate_severity(sevPairs, sevPercent)
    /\ UNCHANGED <<code, filename, min_function_lines, files, cmPc, tree,
                   metrics, ddPc, ddTree, ddResult, caPc, caFunctions,
                   caClasses, caResult, sevPairs, sevPercent, cmRuns>>
    /\ UNCHANGED scVars
    /\ UNCHANGED rgVars
    /\ UNCHANGED sumVars

\* _calculate_score(metrics)
CalculateScore ==
    /\ scMetrics # None /\ scResult = None
    /\ scResult' = _calculate_score(scMetrics)
    /\ UNCHANGED <<code, filename, min_function_lines, files, cmPc, tree,
                   metrics, ddPc, ddTree, ddResult, caPc, caFunctions,
                   caClasses, caResult, cmRuns, scMetrics>>
    /\ UNCHANGED sevVars
    /\ UNCHANGED rgVars
    /\ UNCHANGED sumVars

\* ReportGenerator._generate_recommendations(metrics)
GenerateRecommendations ==
    /\ rgMetrics # None /\ recommendations = None
    /\ recommendations' = [returned |-> _generate_recommendations(rgMetrics)]
    /\ UNCHANGED <<code, filename, min_function_lines, files, cmPc, tree,
                   metrics, ddPc, ddTree, ddResult, caPc, caFunctions,
                   caClasses, caResult, cmRuns, rgMetrics>>
    /\ UNCHANGED sevVars
    /\ UNCHANGED scVars
    /\ UNCHANGED sumVars

\* the end of detect(): the percentage, the severity and the result, from
\* the lists functions and duplicates as the loops left them
DetectSummary ==
    /\ sumResult = None
    /\ sumResult' = SummaryOf(sumFunctions, sumDuplicates)
    /\ UNCHANGED <<code, filename, min_function_lines, files, cmPc, tree,
                   metrics, ddPc, ddTree, ddResult, caPc, caFunctions,
                   caClasses, caResult, cmRuns, sumFunctions, sumDuplicates>>
    /\ UNCHANGED sevVars
    /\ UNCHANGED scVars
    /\ UNCHANGED rgVars

Fresh ==
    /\ cmPc = "new" /\ tree = None /\ metrics = None /\ cmRuns = 0
    /\ ddPc = "new" /\ ddTree = None /\ ddResult = None
    /\ caPc = "new" /\ caFunctions = <<>> /\ caClasses = <<>>
    /\ caResult = None
    /\ sevPairs = 0 /\ sevPercent = [num |-> 0, den |-> 1]
    /\ sevResult = NotCalled
    /\ scMetrics = None /\ scResult = None
    /\ rgMetrics = None /\ recommendations = None
    /\ sumFunctions = <<>> /\ sumDuplicates = <<>> /\ sumResult = None

\* one analysis of a general text, by any one of the three components
Init ==
    /\ code \in Texts
    /\ \E env \in Environments : filename = env[1] /\ files = env[2]
    /\ min_function_lines = DefaultMinFunctionLines
    /\ Fresh

Next ==
    \/ CodeMetricsNew
    \/ CodeMetricsAnalyze
    \/ CodeMetricsAgain
    \/ DetectorNew
    \/ DetectorAnalyze
    \/ DetectorDetect
    \/ CoverageNew
    \/ CoverageAnalyze

Spec == Init /\ [][Next]_vars

\* the duplicate detector on texts of similar functions, under every
\* min_function_lines
InitDetector ==
    /\ code \in DetectorTexts
    /\ filename = DefaultPath /\ files = {}
    /\ min_function_lines \in 1..MaxMinLines
    /\ Fresh

NextDetector ==
    \/ DetectorNew
    \/ DetectorAnalyze
    \/ DetectorDetect

SpecDetector == InitDetector /\ [][NextDetector]_vars

\* the duplicate detector on texts with nested functions
InitNested ==
    /\ code \in NestedTexts
    /\ filename = DefaultPath /\ files = {}
    /\ min_function_lines \in 1..MaxMinLines
    /\ Fresh

SpecNested == InitNested /\ [][NextDetector]_vars

\* the coverage analyzer on texts of functions and test functions
InitCoverage ==
    /\ code \in CoverageTexts
    /\ \E env \in CoverageEnvironments : filename = env[1] /\ files = env[2]
    /\ min_function_lines = DefaultMinFunctionLines
    /\ Fresh

NextCoverage ==
    \/ CoverageNew
    \/ CoverageAnalyze

SpecCoverage == InitCoverage /\ [][NextCoverage]_vars

\* CodeMetrics alone, on the texts whose definitions and lines are counted
InitMetrics ==
    /\ code \in MetricsTexts
    /\ filename = DefaultPath /\ files = {}
    /\ min_function_lines = DefaultMinFunctionLines
    /\ Fresh

NextMetrics ==
    \/ CodeMetricsNew
    \/ CodeMetricsAnalyze
    \/ CodeMetricsAgain

SpecMetrics == InitMetrics /\ [][NextMetrics]_vars

\* _calculate_severity on its own, for every number of pairs up to MaxPairs
\* and percentages on both sides of its thresholds
InitSeverity ==
    /\ code = <<>> /\ filename = DefaultPath /\ files = {}
    /\ min_function_lines = DefaultMinFunctionLines
    /\ cmPc = "new" /\ tree = None /\ metrics = None /\ cmRuns = 0
    /\ ddPc = "new" /\ ddTree = None /\ ddResult = None
    /\ caPc = "new" /\ caFunctions = <<>> /\ caClasses = <<>>
    /\ caResult = None
    /\ sevPairs \in 0..MaxPairs
    /\ sevPercent \in Percents
    /\ sevResult = NotCalled
    /\ scMetrics = None /\ scResult = None
    /\ rgMetrics = None /\ recommendations = None
    /\ sumFunctions = <<>> /\ sumDuplicates = <<>> /\ sumResult = None

NextSeverity == CalculateSeverity

SpecSeverity == InitSeverity /\ [][NextSeverity]_vars

\* the fields of a metrics dict that _calculate_score reads, with values on
\* both sides of every threshold of its table; a dict without functions has
\* no style issues, the default average, no duplication and no tests
ScoreInputs ==
    {m \in [docstrings : [coverage_percent : {0, 333, 1000}],
            complexity : [average : {10, 50, 51, 100, 101, 150, 151}],
            code_style : [issues_count : {0, 1, 3, 4, 10, 11}],
            functions : [count : {0, 1, 30}],
            code_lines : {0, 500, 501},
            duplication : [duplication_percent : {0, 95, 100, 222, 250}],
            coverage : [coverage_estimate :
                           {0, 167, 200, 375, 400, 571, 600, 778, 800}]] :
        /\ m.functions.count = 0 =>
              /\ m.code_style.issues_count = 0
              /\ m.complexity.average = 10
              /\ m.duplication.duplication_percent = 0
              /\ m.coverage.coverage_estimate = 0
        /\ m.functions.count = 1 =>
              /\ m.code_style.issues_count <= 1
              /\ m.duplication.duplication_percent = 0
              /\ m.coverage.coverage_estimate = 0}

\* metrics dicts on both sides of every test _generate_recommendations
\* makes, and the zero-report
RecommendationInputs ==
    [docstrings : [coverage_percent : {0, 799, 800, 1000}],
     complexity : [complex_functions :
                      {<<>>, << [name |-> <<"k">>, complexity |-> 16,
                                 line |-> 1] >>}],
     duplication : [duplicate_pairs : {0, 1}],
     coverage : {[has_tests |-> FALSE, coverage_estimate |-> 0],
                 [has_tests |-> TRUE, coverage_estimate |-> 0],
                 [has_tests |-> TRUE, coverage_estimate |-> 799],
                 [has_tests |-> TRUE, coverage_estimate |-> 800],
                 [has_tests |-> TRUE, coverage_estimate |-> 1000]},
     code_style : [issues_count : {0, 1}]]
    \cup {_empty_metrics(DefaultPath)}

\* _generate_recommendations on its own
InitRecommendations ==
    /\ code = <<>> /\ filename = DefaultPath /\ files = {}
    /\ min_function_lines = DefaultMinFunctionLines
    /\ cmPc = "new" /\ tree = None /\ metrics = None /\ cmRuns = 0
    /\ ddPc = "new" /\ ddTree = None /\ ddResult = None
    /\ caPc = "new" /\ caFunctions = <<>> /\ caClasses = <<>>
    /\ caResult = None
    /\ sevPairs = 0 /\ sevPercent = [num |-> 0, den |-> 1]
    /\ sevResult = NotCalled
    /\ scMetrics = None /\ scResult = None
    /\ rgMetrics \in RecommendationInputs /\ recommendations = None
    /\ sumFunctions = <<>> /\ sumDuplicates = <<>> /\ sumResult = None

NextRecommendations == GenerateRecommendations

SpecRecommendations == InitRecommendations /\ [][NextRecommendations]_vars

\* numbers of candidates: a few, and enough for one name in 2001 or two in
\* 4001 to be less than 0.05 percent
CandidateCounts == {0, 1, 2, 3, 4, 5, 6, 2001, 4001}

\* a candidate list of n functions of four lines each, the first two of
\* them of one name; of an entry the summary reads the name and the line
CandidateList(n) ==
    [i \in 1..n |->
        [name |-> IF i <= 2 THEN NameF ELSE IF i = 3 THEN NameG ELSE <<"x">>,
         line |-> 4 * (i - 1) + 1]]

\* the list duplicates the comparison loop leaves when the pairs of the
\* first three candidates have the similarities sims (0: below 0.75)
DuplicatesOf(fs, pairs, sims) ==
    SelectEntries(
        SelectSeq([k \in 1..Len(pairs) |->
                      [hit |-> sims[k] # 0,
                       entry |-> [function1 |-> fs[pairs[k][1]].name,
                                  function2 |-> fs[pairs[k][2]].name,
                                  similarity |-> sims[k],
                                  line1 |-> fs[pairs[k][1]].line,
                                  line2 |-> fs[pairs[k][2]].line]]],
                  LAMBDA x : x.hit))

\* the pairs of the first three candidates of a list of n
FirstPairs(n) == PairsFrom(1, 2, Min({3, n}))

\* the summary of detect() on its own: the other candidates resemble nothing
InitSummary ==
    /\ code = <<>> /\ filename = DefaultPath /\ files = {}
    /\ min_function_lines = DefaultMinFunctionLines
    /\ cmPc = "new" /\ tree = None /\ metrics = None /\ cmRuns = 0
    /\ ddPc = "new" /\ ddTree = None /\ ddResult = None
    /\ caPc = "new" /\ caFunctions = <<>> /\ caClasses = <<>>
    /\ caResult = None
    /\ sevPairs = 0 /\ sevPercent = [num |-> 0, den |-> 1]
    /\ sevResult = NotCalled
    /\ scMetrics = None /\ scResult = None
    /\ rgMetrics = None /\ recommendations = None
    /\ \E n \in CandidateCounts :
          /\ sumFunctions = CandidateList(n)
          /\ \E sims \in [1..Len(FirstPairs(n)) -> {0, 750, 1000}] :
                sumDuplicates
                   = DuplicatesOf(CandidateList(n), FirstPairs(n), sims)
    /\ sumResult = None

NextSummary == DetectSummary

SpecSummary == InitSummary /\ [][NextSummary]_vars

\* _calculate_score on its own
InitScore ==
    /\ code = <<>> /\ filename = DefaultPath /\ files = {}
    /\ min_function_lines = DefaultMinFunctionLines
    /\ cmPc = "new" /\ tree = None /\ metrics = None /\ cmRuns = 0
    /\ ddPc = "new" /\ ddTree = None /\ ddResult = None
    /\ caPc = "new" /\ caFunctions = <<>> /\ caClasses = <<>>
    /\ caResult = None
    /\ sevPairs = 0 /\ sevPercent = [num |-> 0, den |-> 1]
    /\ sevResult = NotCalled
    /\ scMetrics \in ScoreInputs /\ scResult = None
    /\ rgMetrics = None /\ recommendations = None
    /\ sumFunctions = <<>> /\ sumDuplicates = <<>> /\ sumResult = None

NextScore == CalculateScore

SpecScore == InitScore /\ [][NextScore]_vars

-----------------------------------------------------------------------------
(* Claims about CodeMetrics *)

ZeroBreakdown ==
    [documentation |-> 0, complexity |-> 0, code_style |-> 0,
     structure |-> 0, duplication |-> 0, test_coverage |-> 0]

\* the report analyze() gives for the empty text under a filename
EmptyTextReport(fname, exists) ==
    CodeMetrics_analyze(<<>>, fname, CodeMetrics_init(<<>>).tree, exists).report

\* C1: for every parsable text the report's total lies in [0, 100] and each
\* breakdown component in [0, its category maximum] (15, 20, 20, 15, 15, 15).
Thm_C1 ==
    (cmPc = "done" /\ Parsable(code)) =>
        LET s == metrics.overall_score
            b == s.breakdown
        IN  /\ 0 <= s.total /\ s.total <= 1000
            /\ 0 <= b.documentation /\ b.documentation <= 150
            /\ 0 <= b.complexity /\ b.complexity <= 200
            /\ 0 <= b.code_style /\ b.code_style <= 200
            /\ 0 <= b.structure /\ b.structure <= 150
            /\ 0 <= b.duplication /\ b.duplication <= 150
            /\ 0 <= b.test_coverage /\ b.test_coverage <= 150

\* a parsable text analyzed to the full 100.0 points
Wit_C1 ==
    /\ cmPc = "done" /\ Parsable(code)
    /\ metrics.overall_score.total = 1000
    /\ metrics.overall_score.breakdown.documentation = 150

\* C2: in every report (of a parsable text or not) the letter grade is a
\* function of the total: A iff total >= 90, B iff 80 <= total < 90, C iff
\* 70 <= total < 80, D iff 60 <= total < 70, F iff total < 60.
Thm_C2 ==
    cmPc = "done" =>
        LET total == metrics.overall_score.total
            grade == metrics.overall_score.letter_grade
        IN  /\ grade = "A" <=> total >= 900
            /\ grade = "B" <=> (800 <= total /\ total < 900)
            /\ grade = "C" <=> (700 <= total /\ total < 800)
            /\ grade = "D" <=> (600 <= total /\ total < 700)
            /\ grade = "F" <=> total < 600

\* a report whose total sits exactly on the B threshold
Wit_C2 ==
    /\ cmPc = "done"
    /\ metrics.overall_score.total = 800
    /\ metrics.overall_score.letter_grade = "B"

\* C3: on an unparsable text neither CodeMetrics nor DuplicateCodeDetector
\* raises; CodeMetrics.analyze() returns the zero-report (all counts 0,
\* severity none, has_tests False, every score 0.0, grade F) and the
\* detector returns zero pairs, 0.0 percent and severity none.
Thm_C3 ==
    ~Parsable(code) =>
        /\ cmPc # "raised"
        /\ ddPc # "raised"
        /\ cmPc = "done" =>
              /\ metrics.functions.count = 0
              /\ metrics.classes.count = 0
              /\ metrics.imports.count = 0
              /\ metrics.code_lines = 0
              /\ metrics.code_style.issues_count = 0
              /\ metrics.duplication.duplicate_pairs = 0
              /\ metrics.duplication.severity = "none"
              /\ metrics.coverage.has_tests = FALSE
              /\ metrics.overall_score.breakdown = ZeroBreakdown
              /\ metrics.overall_score.total = 0
              /\ metrics.overall_score.letter_grade = "F"
        /\ ddPc = "done" =>
              /\ ddResult.duplicate_pairs = 0
              /\ ddResult.duplicates = <<>>
              /\ ddResult.duplication_percent = 0
              /\ ddResult.severity = "none"

\* an unparsable text that holds a function, analyzed by CodeMetrics
Wit_C3 ==
    /\ ~Parsable(code)
    /\ cmPc = "done"
    /\ \E i \in 1..Len(code) : code[i].kind = "def" /\ code[i].body # <<>>
    /\ \E i \in 1..Len(code) : code[i].kind = "bad"

\* C4 as stated: the empty text is analyzed to total 0.0 and grade F.
Cex_C4 ==
    (cmPc = "done" /\ code = <<>>) =>
        /\ metrics.overall_score.total = 0
        /\ metrics.overall_score.letter_grade = "F"

\* C4, amended: the empty text is analyzed to total 65.0 and grade D
\* (complexity 20, code style 20, structure 10, duplication 15, nothing for
\* documentation and test coverage).
Thm_C4 ==
    (cmPc = "done" /\ code = <<>>) =>
        /\ metrics.overall_score.total = 650
        /\ metrics.overall_score.letter_grade = "D"
        /\ metrics.overall_score.breakdown =
              [documentation |-> 0, complexity |-> 200, code_style |-> 200,
               structure |-> 100, duplication |-> 150, test_coverage |-> 0]

\* the empty text, analyzed
Wit_C4 ==
    /\ cmPc = "done" /\ code = <<>>
    /\ metrics.total_lines = 1

\* C5 as stated: the report of an unparsable text agrees with the report of
\* the empty text under the same filename on total_lines, the complexity
\* defaults, the coverage entry and overall_score.
Cex_C5 ==
    (cmPc = "done" /\ ~Parsable(code)) =>
        LET e == EmptyTextReport(filename, files)
        IN  /\ metrics.total_lines = e.total_lines
            /\ metrics.complexity = e.complexity
            /\ metrics.coverage = e.coverage
            /\ metrics.overall_score = e.overall_score

\* C5, amended: the report of an unparsable text agrees with the report of
\* the empty text under the same filename on filename, code_lines,
\* functions, classes, imports, docstrings, code_style, duplication and on
\* the coverage entry's has_tests, coverage_estimate and coverage_level; it
\* differs in total_lines (0, not 1), in the complexity defaults (0.0 and 0,
\* not 1.0 and 1), in overall_score (0.0 and F, not 65.0 and D) and in the
\* fields of the coverage entry.
Thm_C5 ==
    (cmPc = "done" /\ ~Parsable(code)) =>
        LET e == EmptyTextReport(filename, files)
        IN  /\ metrics.filename = e.filename
            /\ metrics.code_lines = e.code_lines
            /\ metrics.functions = e.functions
            /\ metrics.classes = e.classes
            /\ metrics.imports = e.imports
            /\ metrics.docstrings = e.docstrings
            /\ metrics.code_style = e.code_style
            /\ metrics.duplication = e.duplication
            /\ metrics.coverage.has_tests = e.coverage.has_tests
            /\ metrics.coverage.coverage_estimate = e.coverage.coverage_estimate
            /\ metrics.coverage.coverage_level = e.coverage.coverage_level
            /\ metrics.total_lines = 0 /\ e.total_lines = 1
            /\ metrics.complexity.average = 0 /\ e.complexity.average = 10
            /\ metrics.complexity.maximum = 0 /\ e.complexity.maximum = 1
            /\ metrics.overall_score.total = 0 /\ e.overall_score.total = 650
            /\ metrics.overall_score.letter_grade = "F"
            /\ e.overall_score.letter_grade = "D"
            /\ DOMAIN metrics.coverage # DOMAIN e.coverage

\* an unparsable text analyzed under a filename whose test file exists
Wit_C5 ==
    /\ cmPc = "done" /\ ~Parsable(code)
    /\ filename = ModulePath /\ files # {}
    /\ \E i \in 1..Len(code) : code[i].kind = "stmt"

-----------------------------------------------------------------------------
(* Claims about CoverageAnalyzer *)

\* C6 as stated: on an unparsable text CoverageAnalyzer(code, path) followed
\* by analyze() lets no exception escape and reports zero functions and no
\* tests.
Cex_C6 ==
    ~Parsable(code) =>
        /\ caPc # "raised"
        /\ caPc = "done" =>
              /\ caResult.has_tests = FALSE
              /\ caResult.test_count = 0
              /\ caResult.function_count = 0
              /\ caResult.coverage_estimate = 0

-----------------------------------------------------------------------------
(* Claims about DuplicateCodeDetector *)

IsTestDef(it) == it.kind = "def" /\ IsTestName(it.name)

\* a text without its test functions
StripTests(c) == SelectSeq(c, LAMBDA it : ~IsTestDef(it))

\* the names and similarity of each reported pair, in order
PairSummary(r) ==
    [k \in 1..Len(r.duplicates) |->
        <<r.duplicates[k].function1, r.duplicates[k].function2,
          r.duplicates[k].similarity>>]

\* C7: for every text and min_function_lines no reported pair names a test_
\* function, and test functions count neither as candidates nor in the
\* denominator of duplication_percent: the pairs and the percentage are
\* those of the text with its test functions removed.
Thm_C7 ==
    (ddPc = "done" /\ ddTree # None) =>
        /\ \A k \in 1..Len(ddResult.duplicates) :
              /\ ~IsTestName(ddResult.duplicates[k].function1)
              /\ ~IsTestName(ddResult.duplicates[k].function2)
        /\ LET c2 == StripTests(code)
               r == detect(c2, DuplicateCodeDetector_init(c2).tree,
                           min_function_lines)
           IN  /\ PairSummary(ddResult) = PairSummary(r)
               /\ ddResult.duplicate_pairs = r.duplicate_pairs
               /\ ddResult.duplication_percent = r.duplication_percent
               /\ ddResult.severity = r.severity

\* two duplicated functions beside a test function with the same body: one
\* pair, and both of the two candidates duplicated
Wit_C7 ==
    /\ ddPc = "done"
    /\ \E i \in 1..Len(code) :
          IsTestDef(code[i]) /\ Len(code[i].body) >= min_function_lines
    /\ ddResult.duplicate_pairs = 1
    /\ ddResult.duplication_percent = 1000

\* C8 as stated: the similarity of two normalized candidate texts does not
\* depend on their order.
Cex_C8 ==
    (ddPc = "done" /\ ddTree # None) =>
        LET fs == Candidates(code, ddTree, min_function_lines)
        IN  \A i, j \in 1..Len(fs) :
               _calculate_similarity(fs[i].normalized, fs[j].normalized)
               = _calculate_similarity(fs[j].normalized, fs[i].normalized)

\* C9: the similarity of a normalized candidate text with itself is 1.0,
\* every similarity the detector computes (candidate i with candidate j,
\* i <= j) lies in [0, 1], and two candidates with equal normalized texts
\* are reported as a pair with similarity 100.0.
Thm_C9 ==
    (ddPc = "done" /\ ddTree # None) =>
        LET fs == Candidates(code, ddTree, min_function_lines)
            sim == [p \in {q \in (1..Len(fs)) \X (1..Len(fs)) : q[1] <= q[2]} |->
                      _calculate_similarity(fs[p[1]].normalized,
                                            fs[p[2]].normalized)]
        IN  /\ \A i \in 1..Len(fs) : sim[<<i, i>>].num = sim[<<i, i>>].den
            /\ \A p \in DOMAIN sim : 0 <= sim[p].num /\ sim[p].num <= sim[p].den
            /\ \A i, j \in 1..Len(fs) :
                  (i < j /\ fs[i].normalized = fs[j].normalized) =>
                     \E k \in 1..Len(ddResult.duplicates) :
                        /\ ddResult.duplicates[k].function1 = fs[i].name
                        /\ ddResult.duplicates[k].function2 = fs[j].name
                        /\ ddResult.duplicates[k].line1 = fs[i].line
                        /\ ddResult.duplicates[k].line2 = fs[j].line
                        /\ ddResult.duplicates[k].similarity = 1000

\* two candidates of different names and equal normalized texts, reported
Wit_C9 ==
    /\ ddPc = "done" /\ ddTree # None
    /\ LET fs == Candidates(code, ddTree, min_function_lines)
       IN  \E i, j \in 1..Len(fs) :
              /\ i < j
              /\ fs[i].name # fs[j].name
              /\ fs[i].normalized = fs[j].normalized
    /\ ddResult.duplicate_pairs >= 1

\* C10 as stated: a text whose only two non-test functions have different
\* names and identical bodies of at least min_function_lines lines gets
\* exactly one pair, of similarity 100.0, duplication_percent 100.0 and
\* severity medium.
Cex_C10 ==
    LET nt == SelectSeq(code, LAMBDA it : it.kind = "def" /\ ~IsTestDef(it))
    IN  (/\ ddPc = "done"
         /\ Len(nt) = 2
         /\ nt[1].name # nt[2].name
         /\ nt[1].body = nt[2].body
         /\ nt[1].doc = nt[2].doc
         /\ nt[1].gap = nt[2].gap
         /\ Len(nt[1].body) >= min_function_lines) =>
            /\ ddResult.duplicate_pairs = 1
            /\ ddResult.duplicates[1].similarity = 1000
            /\ ddResult.duplication_percent = 1000
            /\ ddResult.severity = "medium"

\* the pairs (i, j), i < j, of candidates whose similarity is at least 3/4
SimilarPairs(fs) ==
    {p \in (1..Len(fs)) \X (1..Len(fs)) :
        /\ p[1] < p[2]
        /\ 4 * _calculate_similarity(fs[p[1]].normalized,
                                     fs[p[2]].normalized).num
           >= 3 * _calculate_similarity(fs[p[1]].normalized,
                                        fs[p[2]].normalized).den}

\* the pair (i, j) of candidates is an entry of the list duplicates
Recorded(fs, duplicates, p) ==
    \E k \in 1..Len(duplicates) :
       /\ duplicates[k].function1 = fs[p[1]].name
       /\ duplicates[k].function2 = fs[p[2]].name
       /\ duplicates[k].line1 = fs[p[1]].line
       /\ duplicates[k].line2 = fs[p[2]].line

\* C11: a pair of candidates (i < j) is recorded as a duplicate iff its
\* similarity is at least 0.75, the bound included; duplication_percent is
\* the number of distinct names in the recorded pairs over max(1, number of
\* candidates), times 100 and rounded to one decimal; with no candidate
\* there is no pair and the percentage is 0.0.
Thm_C11 ==
    (ddPc = "done" /\ ddTree # None) =>
        LET fs == Candidates(code, ddTree, min_function_lines)
            similar == SimilarPairs(fs)
            names == {fs[p[1]].name : p \in similar}
                     \cup {fs[p[2]].name : p \in similar}
        IN  /\ \A i, j \in 1..Len(fs) :
                  i < j =>
                     (Recorded(fs, ddResult.duplicates, <<i, j>>)
                      <=> <<i, j>> \in similar)
            /\ ddResult.duplicate_pairs = Cardinality(similar)
            /\ Len(ddResult.duplicates) = Cardinality(similar)
            /\ ddResult.duplication_percent =
                  RoundDiv(Cardinality(names) * 1000,
                           IF Len(fs) >= 1 THEN Len(fs) ELSE 1)
            /\ fs = <<>> => /\ ddResult.duplicate_pairs = 0
                            /\ ddResult.duplication_percent = 0

\* three candidates: a pair recorded at exactly 75.0, a pair that is not
\* recorded, and a percentage that is neither 0.0 nor 100.0
Wit_C11 ==
    /\ ddPc = "done" /\ ddTree # None
    /\ \E k \in 1..Len(ddResult.duplicates) :
          ddResult.duplicates[k].similarity = 750
    /\ LET fs == Candidates(code, ddTree, min_function_lines)
       IN  /\ Len(fs) = 3
           /\ ddResult.duplicate_pairs < 3
    /\ ddResult.duplication_percent \notin {0, 1000}

\* C12: severity is "none" iff there is no pair; "low" iff there are one or
\* two pairs and the percentage is under 30; "high" iff there are more than
\* five pairs and the percentage is at least 50; "medium" in every other
\* case, so for 3 pairs at 60% and for 1 pair at 100%.
Thm_C12 ==
    sevResult # NotCalled =>
        LET pairs == sevPairs
            severity == sevResult
            under30 == sevPercent.num < 30 * sevPercent.den
            under50 == sevPercent.num < 50 * sevPercent.den
        IN  /\ severity \in {"none", "low", "medium", "high"}
            /\ severity = "none" <=> pairs = 0
            /\ severity = "low" <=> (1 <= pairs /\ pairs <= 2 /\ under30)
            /\ severity = "high" <=> (pairs > 5 /\ ~under50)
            /\ (pairs = 3 /\ sevPercent = [num |-> 600, den |-> 10])
                  => severity = "medium"
            /\ (pairs = 1 /\ sevPercent = [num |-> 1000, den |-> 10])
                  => severity = "medium"

\* 3 pairs at 60%: medium
Wit_C12 ==
    /\ sevPairs = 3
    /\ sevPercent = [num |-> 600, den |-> 10]
    /\ sevResult = "medium"

\* the lines of the body of a function that are not blank: its source
\* segment without the signature line and without blank lines
BodyLines(c, node) ==
    SelectSeq(Tail(SourceSegmentLines(c, node)), LAMBDA l : Strip(l) # <<>>)

\* C13 as stated: the candidates are exactly the non-test function
\* definitions whose body has at least min_function_lines lines that are
\* not blank, whatever those lines contain.
Cex_C13 ==
    (ddPc = "done" /\ ddTree # None) =>
        LET fs == Candidates(code, ddTree, min_function_lines)
            defs == NodesOfKind(ddTree, "def")
        IN  \A i \in 1..Len(defs) :
               (\E k \in 1..Len(fs) : fs[k].line = defs[i].lineno)
               <=> (/\ ~IsTestName(defs[i].item.name)
                    /\ Len(BodyLines(code, defs[i])) >= min_function_lines)

\* the number of test functions of a text, and of its other functions
TestCount(c) == Len(SelectSeq(c, LAMBDA it : IsTestDef(it)))
NonTestCount(c) ==
    Len(SelectSeq(c, LAMBDA it : it.kind = "def" /\ ~IsTestDef(it)))

Thm_C15 ==
    caPc = "done" =>
        LET e == caResult.coverage_estimate
            level == caResult.coverage_level
        IN  /\ level = "excellent" <=> e >= 800
            /\ level = "good" <=> (600 <= e /\ e < 800)
            /\ level = "moderate" <=> (400 <= e /\ e < 600)
            /\ level = "low" <=> (0 < e /\ e < 400)
            /\ level = "none" <=> e <= 0
            /\ caResult.recommendations # <<>>
                  <=> (~caResult.has_tests \/ e < 600)

\* four test functions for five functions: exactly 80.0, 'excellent', and
\* nothing recommended
Wit_C15 ==
    /\ caPc = "done"
    /\ caResult.coverage_estimate = 800
    /\ caResult.coverage_level = "excellent"
    /\ caResult.recommendations = <<>>

\* C16: has_tests is true iff a function of the text has a name starting
\* with test_ or one of tests/test_<stem>.py, test_<stem>.py and
\* <stem>_test.py exists; with the default path code.py, or no path, the
\* files on disk are not consulted: has_tests is then "the text has a test_
\* function", whatever files exist.
Thm_C16 ==
    caPc = "done" =>
        LET in_text == TestCount(code) > 0
            on_disk == \/ <<"tests/test_", filename.stem, ".py">> \in files
                       \/ <<"test_", filename.stem, ".py">> \in files
                       \/ <<filename.stem, "_test.py">> \in files
        IN  IF filename \in {DefaultPath, EmptyPath}
            THEN caResult.has_tests <=> in_text
            ELSE caResult.has_tests <=> (in_text \/ on_disk)

\* the default path, its three sibling test files on disk and no test
\* function in the text: no tests
Wit_C16 ==
    /\ caPc = "done"
    /\ filename = DefaultPath
    /\ <<"test_", "code", ".py">> \in files
    /\ TestCount(code) = 0
    /\ NonTestCount(code) > 0
    /\ ~caResult.has_tests

\* C17 as stated: when CodeMetrics is given a filename other than the
\* default, a sibling test file of that name exists and the text has no
\* test_ function, the report's coverage.has_tests is True.
Cex_C17 ==
    (/\ cmPc = "done" /\ tree # None
     /\ filename \notin {DefaultPath, EmptyPath}
     /\ \E k \in 1..3 : TestFilePatterns(filename.stem)[k] \in files
     /\ TestCount(code) = 0) =>
        metrics.coverage.has_tests

RECURSIVE DecisionPoints(_)
DecisionPoints(body) ==
    IF body = <<>> THEN 0
    ELSE (CASE Head(body).kind = "if"     -> 1
            [] Head(body).kind \in {"while", "for", "with", "try"} -> 1
            [] Head(body).kind = "boolop" -> Head(body).n - 1
            [] Head(body).kind = "def"    -> DecisionPoints(Head(body).body)
            [] OTHER                      -> 0)
         + DecisionPoints(Tail(body))

\* C19: the complexity of every function of the tree is 1 + the number of
\* branching nodes in its subtree, those of nested functions included, +
\* the sum over its boolean expressions of (operands - 1); a function with
\* three independent if statements and no boolean expression has
\* complexity 4; the complexity is at least 1.
Thm_C19 ==
    (cmPc = "done" /\ tree # None) =>
        LET functions == NodesOfKind(tree, "def")
        IN  /\ \A i \in 1..Len(functions) :
                  /\ _calculate_complexity(functions[i])
                     = 1 + DecisionPoints(functions[i].item.body)
                  /\ _calculate_complexity(functions[i]) >= 1
                  /\ functions[i].item.body = BodyIfIfIf =>
                        _calculate_complexity(functions[i]) = 4
            /\ (Len(functions) = 1 /\ ~IsTestName(functions[1].item.name)) =>
                  metrics.complexity.maximum
                  = 1 + DecisionPoints(functions[1].item.body)

\* a function with an if statement of its own and one in a nested
\* function: complexity 3, and 2 for the nested function
Wit_C19 ==
    /\ cmPc = "done" /\ tree # None
    /\ Len(code) = 1 /\ code[1].kind = "def" /\ code[1].body = BodyNested
    /\ metrics.complexity.maximum = 3
    /\ metrics.complexity.average = 25

\* C20: average and maximum are those of the functions that are not test
\* functions; without such a function they are 1.0 and 1 and no function
\* is complex; otherwise maximum is the largest complexity,
\* 1 <= average <= maximum, and complex_functions lists exactly the
\* functions that are not test functions and have a complexity above 10,
\* so it is non-empty iff maximum > 10.
Thm_C20 ==
    (cmPc = "done" /\ tree # None) =>
        LET functions == SelectSeq(NodesOfKind(tree, "def"),
                                   LAMBDA n : ~IsTestName(n.item.name))
            cs == [i \in 1..Len(functions) |->
                      1 + DecisionPoints(functions[i].item.body)]
            above == SelectSeq([i \in 1..Len(functions) |->
                                   [name |-> functions[i].item.name,
                                    complexity |-> cs[i],
                                    line |-> functions[i].lineno]],
                               LAMBDA f : f.complexity > 10)
            r == metrics.complexity
        IN  IF functions = <<>>
            THEN r = [average |-> 10, maximum |-> 1,
                      complex_functions |-> <<>>]
            ELSE /\ r.maximum = Max({cs[i] : i \in 1..Len(cs)})
                 /\ r.average = RoundDiv(10 * SumSeq(cs), Len(cs))
                 /\ 10 <= r.average /\ r.average <= 10 * r.maximum
                 /\ r.complex_functions = above
                 /\ r.complex_functions # <<>> <=> r.maximum > 10

\* a complex function beside a test function: the test function does not
\* lower the average
Wit_C20 ==
    /\ cmPc = "done" /\ tree # None
    /\ TestCount(code) = 1 /\ NonTestCount(code) = 1
    /\ metrics.complexity.average = 160
    /\ metrics.complexity.maximum = 16
    /\ Len(metrics.complexity.complex_functions) = 1

-----------------------------------------------------------------------------
(* Claims about the score *)

\* the rows of the score table other than documentation, for the metrics m
\* and the breakdown b
TableRows(m, b) ==
    LET avg == m.complexity.average
        issues == m.code_style.issues_count
        pct == m.duplication.duplication_percent
        est == m.coverage.coverage_estimate
        penalty == (IF m.functions.count = 0 THEN 5 ELSE 0)
                   + (IF m.code_lines > 500 THEN 5 ELSE 0)
    IN  /\ b.complexity = (IF avg <= 50 THEN 200
                           ELSE IF avg <= 100 THEN 150
                           ELSE IF avg <= 150 THEN 100 ELSE 50)
        /\ b.code_style = (IF issues = 0 THEN 200
                           ELSE IF issues <= 3 THEN 150
                           ELSE IF issues <= 10 THEN 100 ELSE 50)
        /\ b.structure = (IF 15 - penalty < 0 THEN 0 ELSE (15 - penalty) * 10)
        /\ b.duplication = (IF pct = 0 THEN 150
                            ELSE IF pct < 100 THEN 120
                            ELSE IF pct < 250 THEN 80 ELSE 30)
        /\ b.test_coverage = (IF est >= 800 THEN 150
                              ELSE IF est >= 600 THEN 120
                              ELSE IF est >= 400 THEN 80
                              ELSE IF est >= 200 THEN 50 ELSE 0)

\* C21 as stated: the breakdown follows the table, its documentation entry
\* being exactly doc_coverage / 100 * 15.
Cex_C21 ==
    scResult # None =>
        /\ 100 * scResult.breakdown.documentation
              = 15 * scMetrics.docstrings.coverage_percent
        /\ TableRows(scMetrics, scResult.breakdown)

\* C21, amended: the breakdown follows the table (complexity 20/15/10/5 at
\* averages <= 5, <= 10, <= 15, above; code_style 20/15/10/5 at 0, <= 3,
\* <= 10, more issues; structure 15 less 5 for zero functions and less 5 for
\* code_lines > 500; duplication 15/12/8/3 at 0, < 10, < 25, more percent;
\* test_coverage 15/12/8/5/0 at >= 80, >= 60, >= 40, >= 20, less), and its
\* documentation entry is doc_coverage / 100 * 15 rounded to one decimal.
Thm_C21 ==
    scResult # None =>
        /\ scResult.breakdown.documentation
              = RoundDiv(15 * scMetrics.docstrings.coverage_percent, 100)
        /\ TableRows(scMetrics, scResult.breakdown)

\* a third of the items documented (33.3 percent, 4.995 points reported as
\* 5.0), eleven style issues and an estimate exactly on the 20 percent row
Wit_C21 ==
    /\ scResult # None
    /\ scMetrics.docstrings.coverage_percent = 333
    /\ scResult.breakdown.documentation = 50
    /\ scMetrics.code_style.issues_count = 11
    /\ scResult.breakdown.code_style = 50
    /\ scMetrics.coverage.coverage_estimate = 200
    /\ scResult.breakdown.test_coverage = 50

-----------------------------------------------------------------------------
(* Claims about the counts of definitions, lines and style issues *)

\* the function definitions of a text: those at top level, those nested in a
\* function body and the methods of the classes
AllFunctions(c) ==
    Flatten([i \in 1..Len(c) |->
        IF c[i].kind = "def"
        THEN << c[i] >> \o SelectSeq(c[i].body, LAMBDA st : st.kind = "def")
        ELSE IF c[i].kind = "class" THEN c[i].methods
        ELSE <<>>])

\* the classes of a text
AllClasses(c) == SelectSeq(c, LAMBDA it : it.kind = "class")

\* how many of the definitions ds start with a string literal
WithDocstring(ds) == Len(SelectSeq(ds, LAMBDA d : d.doc))

\* C22 as stated: for every parsable text coverage_percent is (functions
\* with a docstring + classes with a docstring) / (all functions + all
\* classes) * 100 rounded to one decimal, test functions, methods and nested
\* functions counted, and 0 when there is neither; the documented counts do
\* not exceed the totals and the percentage lies in [0, 100].
Cex_C22 ==
    (cmPc = "done" /\ Parsable(code)) =>
        LET d == metrics.docstrings
            total == Len(AllFunctions(code)) + Len(AllClasses(code))
            documented == WithDocstring(AllFunctions(code))
                          + WithDocstring(AllClasses(code))
        IN  /\ d.total_functions = Len(AllFunctions(code))
            /\ d.total_classes = Len(AllClasses(code))
            /\ d.coverage_percent = (IF total = 0 THEN 0
                                     ELSE RoundDiv(documented * 1000, total))
            /\ d.functions_documented <= d.total_functions
            /\ d.classes_documented <= d.total_classes
            /\ 0 <= d.coverage_percent /\ d.coverage_percent <= 1000

\* the number of newline characters in a string
NewlineCount(str) == Cardinality({i \in 1..Len(str) : str[i] = "\n"})

\* C23: for every parsable text total_lines is the number of newlines in the
\* text plus one (1 for the empty text, which has code_lines 0 and no
\* functions), code_lines is the number of lines that are not blank once
\* stripped and whose first character is then not '#', and so
\* 0 <= code_lines <= total_lines and total_lines >= 1.
Thm_C23 ==
    (cmPc = "done" /\ Parsable(code)) =>
        LET lines == Lines(code)
            counted == {i \in 1..Len(lines) :
                           /\ Strip(lines[i]) # <<>>
                           /\ Head(Strip(lines[i])) # "#"}
        IN  /\ metrics.total_lines = NewlineCount(JoinLines(lines)) + 1
            /\ metrics.code_lines = Cardinality(counted)
            /\ 0 <= metrics.code_lines
            /\ metrics.code_lines <= metrics.total_lines
            /\ metrics.total_lines >= 1
            /\ code = <<>> =>
                  /\ metrics.total_lines = 1
                  /\ metrics.code_lines = 0
                  /\ metrics.functions.count = 0

\* an indented comment and a function: every line but one is code
Wit_C23 ==
    /\ cmPc = "done" /\ Parsable(code)
    /\ \E i, j \in 1..Len(code) :
          code[i].kind = "icomment" /\ code[j].kind = "def"
    /\ metrics.code_lines = metrics.total_lines - 1
    /\ metrics.code_lines >= 2

\* the (line, message) pairs of the issues in a report
IssuePairs(m) ==
    {<<m.code_style.issues[i].line, m.code_style.issues[i].message.text>> :
        i \in 1..Len(m.code_style.issues)}

\* C24 as stated: for every parsable text an issue is recorded for a
\* function iff its span (end line minus start line) exceeds 50, and a
\* separate issue iff it declares more than 5 positional parameters of any
\* positional kind; each issue carries the function's start line,
\* issues_count is the length of the issues list, and no function
\* contributes more than two issues.
Cex_C24 ==
    (cmPc = "done" /\ Parsable(code)) =>
        LET fns == NodesOfKind(tree, "def")
            long == {i \in 1..Len(fns) :
                        fns[i].end_lineno - fns[i].lineno > 50}
            wide == {i \in 1..Len(fns) :
                        fns[i].item.posonly + fns[i].item.nargs > 5}
        IN  /\ IssuePairs(metrics)
                 = {<<fns[i].lineno, "is too long">> : i \in long}
                   \cup {<<fns[i].lineno, "has too many parameters">> :
                            i \in wide}
            /\ metrics.code_style.issues_count
                 = Len(metrics.code_style.issues)
            /\ metrics.code_style.issues_count
                 = Cardinality(long) + Cardinality(wide)
            /\ \A i \in 1..Len(fns) :
                  Cardinality({k \in 1..Len(metrics.code_style.issues) :
                      metrics.code_style.issues[k].line = fns[i].lineno}) <= 2

-----------------------------------------------------------------------------
(* Claims about the pairs the detector compares *)

\* the position in the candidate list fs of the candidate starting at line
PositionOf(fs, line) == CHOOSE i \in 1..Len(fs) : fs[i].line = line

\* <<i, j>> comes before <<k, l>> in the order of the two nested loops
PairBefore(p, q) == p[1] < q[1] \/ (p[1] = q[1] /\ p[2] < q[2])

\* C25: for a candidate list of length n the duplicates list has at most
\* n*(n-1)/2 entries and duplicate_pairs is its length; every entry pairs a
\* candidate with one extracted after it (never with itself), no pair of
\* positions occurs twice, and the entries are in increasing (i, j) order.
Thm_C25 ==
    (ddPc = "done" /\ ddTree # None) =>
        LET fs == Candidates(code, ddTree, min_function_lines)
            n == Len(fs)
            dups == ddResult.duplicates
            at == [k \in 1..Len(dups) |->
                      <<PositionOf(fs, dups[k].line1),
                        PositionOf(fs, dups[k].line2)>>]
        IN  /\ 2 * Len(dups) <= n * (n - 1)
            /\ ddResult.duplicate_pairs = Len(dups)
            /\ \A k \in 1..Len(dups) :
                  /\ \E i \in 1..n : fs[i].line = dups[k].line1
                  /\ \E j \in 1..n : fs[j].line = dups[k].line2
                  /\ at[k][1] < at[k][2]
                  /\ dups[k].function1 = fs[at[k][1]].name
                  /\ dups[k].function2 = fs[at[k][2]].name
            /\ \A k, l \in 1..Len(dups) : k < l => PairBefore(at[k], at[l])

\* four candidates of which the last extracted is a nested function that
\* stands above the third in the text: three pairs are recorded, the last
\* of them with line1 > line2
Wit_C25 ==
    /\ ddPc = "done" /\ ddTree # None
    /\ Len(Candidates(code, ddTree, min_function_lines)) = 4
    /\ ddResult.duplicate_pairs = 3
    /\ ddResult.duplicates[3].line1 > ddResult.duplicates[3].line2

-----------------------------------------------------------------------------
(* Claims about the zero-report *)

\* the entries of a report that are mappings
SubMappings ==
    {"functions", "classes", "imports", "complexity", "docstrings",
     "code_style", "duplication", "coverage", "overall_score"}

\* C26 as stated: the zero-report of an unparsable text has the fields of a
\* report of a parsable text: the same entries, in every sub-mapping every
\* key a normal report has there (the breakdown included), and in its
\* coverage entry test_count and function_count.
Cex_C26 ==
    (cmPc = "done" /\ ~Parsable(code)) =>
        LET normal == EmptyTextReport(filename, files)
        IN  /\ DOMAIN normal \subseteq DOMAIN metrics
            /\ \A k \in SubMappings :
                  DOMAIN normal[k] \subseteq DOMAIN metrics[k]
            /\ DOMAIN normal.overall_score.breakdown
                  \subseteq DOMAIN metrics.overall_score.breakdown
            /\ {"test_count", "function_count"}
                  \subseteq DOMAIN metrics.coverage

-----------------------------------------------------------------------------
(* Claims about the agreement of the components *)

\* C27: for every parsable text the components count the same functions,
\* split by the prefix test_: coverage.test_count + coverage.function_count
\* = functions.count = docstrings.total_functions, each being the number of
\* function definitions of the text (test_ ones and others), and neither
\* the duplicate candidates nor the functions entering the complexity
\* average are more than coverage.function_count.
Thm_C27 ==
    (cmPc = "done" /\ Parsable(code)) =>
        LET fs == AllFunctions(code)
            tests == Len(SelectSeq(fs, LAMBDA d : IsTestName(d.name)))
            measured == SelectSeq(NodesOfKind(tree, "def"),
                                  LAMBDA n : ~IsTestName(n.item.name))
        IN  /\ metrics.coverage.test_count = tests
            /\ metrics.coverage.function_count = Len(fs) - tests
            /\ metrics.coverage.test_count + metrics.coverage.function_count
                  = metrics.functions.count
            /\ metrics.functions.count = metrics.docstrings.total_functions
            /\ Len(Candidates(code, tree, DefaultMinFunctionLines))
                  <= metrics.coverage.function_count
            /\ Len(measured) <= metrics.coverage.function_count

\* a test function beside a function that holds a nested one: three
\* functions, two of them not tests, one of these long enough to be a
\* duplicate candidate
Wit_C27 ==
    /\ cmPc = "done" /\ Parsable(code)
    /\ Len(code) = 2
    /\ metrics.functions.count = 3
    /\ metrics.coverage.test_count = 1
    /\ metrics.coverage.function_count = 2
    /\ Len(Candidates(code, tree, DefaultMinFunctionLines)) = 1

-----------------------------------------------------------------------------
(* Claims about the recommendations *)

\* the messages of a list of recommendations
Messages(recs) == {recs[i].msg : i \in 1..Len(recs)}

\* C28: for every metrics report, the zero-report included, the list
\* _generate_recommendations returns is not empty; it holds a docstring
\* recommendation iff coverage_percent < 80, a test recommendation iff
\* has_tests is false or coverage_estimate < 80, a duplication
\* recommendation iff duplicate_pairs > 0, a style recommendation iff
\* issues_count > 0, a complexity recommendation iff complex_functions is
\* not empty, and the entry 'Excellent code quality', alone, iff none of
\* these conditions holds.
Thm_C28 ==
    recommendations # None =>
        LET m == rgMetrics
            msgs == Messages(recommendations.returned)
            docs == m.docstrings.coverage_percent < 800
            tests == ~m.coverage.has_tests
                     \/ m.coverage.coverage_estimate < 800
            dups == m.duplication.duplicate_pairs > 0
            style == m.code_style.issues_count > 0
            complex == m.complexity.complex_functions # <<>>
            excellent ==
                "Excellent code quality! No major improvements needed."
        IN  /\ recommendations.returned # <<>>
            /\ "Add docstrings to functions and classes" \in msgs <=> docs
            /\ (\/ "Add unit tests to verify code functionality" \in msgs
                \/ "Increase test coverage" \in msgs) <=> tests
            /\ "Remove code duplication" \in msgs <=> dups
            /\ "Fix code style issues" \in msgs <=> style
            /\ "Reduce complexity of functions" \in msgs <=> complex
            /\ excellent \in msgs
                  <=> ~(docs \/ tests \/ dups \/ style \/ complex)
            /\ excellent \in msgs => Len(recommendations.returned) = 1
            /\ Len(recommendations.returned) = Cardinality(msgs)

\* a report exactly on both thresholds of 80 and with nothing else to
\* recommend: the one entry
Wit_C28 ==
    /\ recommendations # None
    /\ rgMetrics.docstrings.coverage_percent = 800
    /\ rgMetrics.coverage.has_tests
    /\ rgMetrics.coverage.coverage_estimate = 800
    /\ Len(recommendations.returned) = 1
    /\ recommendations.returned[1].msg
          = "Excellent code quality! No major improvements needed."

-----------------------------------------------------------------------------
(* Claims about the summary fields *)

\* C29: the total of a report is 0.0 iff the text was unparsable: for every
\* parsable text the complexity, code_style, structure and duplication
\* components are each at least 3, so the total is positive.
Thm_C29 ==
    cmPc = "done" =>
        LET s == metrics.overall_score
        IN  /\ s.total = 0 <=> ~Parsable(code)
            /\ Parsable(code) =>
                  /\ s.breakdown.complexity >= 30
                  /\ s.breakdown.code_style >= 30
                  /\ s.breakdown.structure >= 30
                  /\ s.breakdown.duplication >= 30
                  /\ s.total > 0

\* two functions that duplicate each other entirely: the duplication
\* component is at its lowest, 3.0
Wit_C29 ==
    /\ cmPc = "done" /\ Parsable(code)
    /\ metrics.duplication.duplication_percent = 1000
    /\ metrics.overall_score.breakdown.duplication = 30
    /\ metrics.overall_score.total > 0

\* C30 as stated: in every detector result duplicate_pairs = 0 iff
\* duplication_percent = 0.0 iff severity = 'none' iff the duplicates list
\* is empty, duplication_percent lies in [0, 100], and the duplication score
\* of the aggregator is 15 exactly when no pair was found.
Cex_C30 ==
    sumResult # None =>
        /\ sumResult.duplicate_pairs = 0
              <=> sumResult.duplication_percent = 0
        /\ sumResult.duplication_percent = 0
              <=> sumResult.severity = "none"
        /\ sumResult.severity = "none" <=> sumResult.duplicates = <<>>
        /\ 0 <= sumResult.duplication_percent
        /\ sumResult.duplication_percent <= 1000
        /\ DuplicationScore(sumResult.duplication_percent) = 15
              <=> sumResult.duplicate_pairs = 0

====
